---------------------------- MODULE Spec2Model ----------------------------
(***************************************************************************)
(* A model of the NBT codec of nbtformat/full.py: the tag payload record,  *)
(* its validating constructor, the recursive reader and writer, and the    *)
(* named tag built on them.                                                 *)
(*                                                                          *)
(* Python values are represented as follows.                                *)
(*   int    an arbitrary-precision integer, a record [neg, mag] with mag    *)
(*          the big-endian base-256 magnitude without leading zeros;        *)
(*   bytes  a sequence of numbers in 0..255;                                *)
(*   str    a sequence of Unicode code points;                              *)
(*   float  the 8 bytes of its IEEE-754 binary64 representation;            *)
(*   list   a sequence; dict: a sequence of [name, payload] entries in      *)
(*          insertion order, with distinct names.                           *)
(* An operation that can raise returns a record with an err field, the      *)
(* exception raised (NoErr when it returned normally).                      *)
(***************************************************************************)
EXTENDS Integers, Sequences, FiniteSets, TLC

----------------------------------------------------------------------------
(* constants.py *)

TAG_END == 0
TAG_BYTE == 1
TAG_SHORT == 2
TAG_INT == 3
TAG_LONG == 4
TAG_FLOAT == 5
TAG_DOUBLE == 6
TAG_BYTE_ARRAY == 7
TAG_STRING == 8
TAG_LIST == 9
TAG_COMPOUND == 10
TAG_INT_ARRAY == 11
TAG_LONG_ARRAY == 12

ALL_TAG_TYPES ==
    { TAG_END, TAG_BYTE, TAG_SHORT, TAG_INT, TAG_LONG, TAG_FLOAT, TAG_DOUBLE,
      TAG_BYTE_ARRAY, TAG_STRING, TAG_LIST, TAG_COMPOUND, TAG_INT_ARRAY,
      TAG_LONG_ARRAY }

TAG_NAMES ==
    << "TAG_End", "TAG_Byte", "TAG_Short", "TAG_Int", "TAG_Long", "TAG_Float",
       "TAG_Double", "TAG_Byte_array", "TAG_String", "TAG_List",
       "TAG_Compound", "TAG_Int_array", "TAG_Long_array" >>

IntKinds == { TAG_BYTE, TAG_SHORT, TAG_INT, TAG_LONG }
FloatKinds == { TAG_FLOAT, TAG_DOUBLE }
ArrayKinds == { TAG_BYTE_ARRAY, TAG_INT_ARRAY, TAG_LONG_ARRAY }

(* TAG_NUMERIC_BYTE_COUNT.get(k): the byte count, 0 standing for None *)
TAG_NUMERIC_BYTE_COUNT(k) ==
    CASE k = TAG_BYTE -> 1
      [] k = TAG_SHORT -> 2
      [] k = TAG_INT -> 4
      [] k = TAG_LONG -> 8
      [] k = TAG_FLOAT -> 4
      [] k = TAG_DOUBLE -> 8
      [] OTHER -> 0

(* TAG_ARRAY_SUBTYPES.get(k, TAG_END) *)
TAG_ARRAY_SUBTYPES(k) ==
    CASE k = TAG_BYTE_ARRAY -> TAG_BYTE
      [] k = TAG_INT_ARRAY -> TAG_INT
      [] k = TAG_LONG_ARRAY -> TAG_LONG
      [] OTHER -> TAG_END

----------------------------------------------------------------------------
(* Exceptions *)

NoErr == [type |-> "", msg |-> "", index |-> -1]
Exc(t, m) == [type |-> t, msg |-> m, index |-> -1]
ExcAt(t, m, i) == [type |-> t, msg |-> m, index |-> i]

----------------------------------------------------------------------------
(* Python int: arbitrary precision, sign and magnitude *)

RECURSIVE StripZeros(_)
StripZeros(b) ==
    IF b = <<>> \/ b[1] # 0 THEN b ELSE StripZeros(Tail(b))

RECURSIVE NatBytes(_)
NatBytes(n) ==
    IF n = 0 THEN <<>> ELSE Append(NatBytes(n \div 256), n % 256)

(* the Python int with the value of the small number n *)
PyInt(n) ==
    [neg |-> n < 0, mag |-> NatBytes(IF n < 0 THEN -n ELSE n)]

RECURSIVE BytesNat(_)
BytesNat(b) ==
    IF b = <<>> THEN 0 ELSE (BytesNat(SubSeq(b, 1, Len(b) - 1)) * 256) + b[Len(b)]

(* the number a Python int of at most 31 bits stands for *)
AsNum(x) == IF x.neg THEN -BytesNat(x.mag) ELSE BytesNat(x.mag)

BitLen8(b) ==
    CASE b >= 128 -> 8 [] b >= 64 -> 7 [] b >= 32 -> 6 [] b >= 16 -> 5
      [] b >= 8 -> 4 [] b >= 4 -> 3 [] b >= 2 -> 2 [] b >= 1 -> 1
      [] OTHER -> 0

(* int.bit_length(): the bits of the magnitude, sign excluded *)
bit_length(x) ==
    IF x.mag = <<>> THEN 0 ELSE 8 * (Len(x.mag) - 1) + BitLen8(x.mag[1])

Zeros(n) == [i \in 1..n |-> 0]

(* the magnitude b left-padded with zero bytes to n bytes (Len(b) <= n) *)
PadTo(b, n) == Zeros(n - Len(b)) \o b

Invert(b) == [i \in 1..Len(b) |-> 255 - b[i]]

(* b + 1 modulo 2^(8 Len(b)), big-endian *)
RECURSIVE AddOne(_)
AddOne(b) ==
    IF b = <<>> THEN <<>>
    ELSE IF b[Len(b)] < 255
         THEN [b EXCEPT ![Len(b)] = @ + 1]
         ELSE Append(AddOne(SubSeq(b, 1, Len(b) - 1)), 0)

(* two's-complement negation on a fixed width *)
Negate(b) == AddOne(Invert(b))

(* 2^(8n-1) as an n-byte magnitude *)
MinMag(n) == [i \in 1..n |-> IF i = 1 THEN 128 ELSE 0]

(* int.to_bytes(length, byteorder='big', signed=True) *)
to_bytes_signed(x, length) ==
    IF ~x.neg
    THEN IF bit_length(x) <= 8 * length - 1
         THEN [err |-> NoErr, bytes |-> PadTo(x.mag, length)]
         ELSE [err |-> Exc("OverflowError", "int too big to convert"), bytes |-> <<>>]
    ELSE IF bit_length(x) <= 8 * length - 1 \/ x.mag = MinMag(length)
         THEN [err |-> NoErr, bytes |-> Negate(PadTo(x.mag, length))]
         ELSE [err |-> Exc("OverflowError", "int too big to convert"), bytes |-> <<>>]

(* int.from_bytes(b, byteorder='big', signed=True) *)
from_bytes_signed(b) ==
    IF b # <<>> /\ b[1] >= 128
    THEN [neg |-> TRUE, mag |-> StripZeros(Negate(b))]
    ELSE [neg |-> FALSE, mag |-> StripZeros(b)]


----------------------------------------------------------------------------
(* nbtformat/full.py: module-level helpers *)

(* a wrong reading of the sign: signed=False *)
nbt_int_from_bytes_unsigned(b, length) ==
    IF Len(b) # length
    THEN [err |-> Exc("ValueError", "not enough bytes for data type"), val |-> PyInt(0)]
    ELSE [err |-> NoErr, val |-> [neg |-> FALSE, mag |-> StripZeros(b)]]

nbt_int_from_bytes(b, length) ==
    IF Len(b) # length
    THEN [err |-> Exc("ValueError", "not enough bytes for data type"), val |-> PyInt(0)]
    ELSE [err |-> NoErr, val |-> from_bytes_signed(b)]

Reverse(b) == [i \in 1..Len(b) |-> b[Len(b) + 1 - i]]

(* a wrong byte order: byteorder='little' *)
nbt_int_to_bytes_little(x, length) ==
    [err |-> to_bytes_signed(x, length).err, bytes |-> Reverse(to_bytes_signed(x, length).bytes)]

nbt_int_to_bytes(x, length) == to_bytes_signed(x, length)

numeric_tag_size(tag_type) ==
    IF TAG_NUMERIC_BYTE_COUNT(tag_type) = 0
    THEN [err |-> Exc("ValueError", "not a integer or float tag type"), val |-> 0]
    ELSE [err |-> NoErr, val |-> TAG_NUMERIC_BYTE_COUNT(tag_type)]

(* bit_length() / 8.0 > size_bytes, an exact comparison at these sizes *)
int_sized(x, size_bytes) ==
    IF bit_length(x) > 8 * size_bytes
    THEN [err |-> Exc("ValueError", "magnitude of integer value is too large"), val |-> PyInt(0)]
    ELSE [err |-> NoErr, val |-> x]

(* TAG_NAMES[tag_type]: a Python list index, negative indices count from the end *)
tag_kind_to_str(tag_type) ==
    IF tag_type \in 0..(Len(TAG_NAMES) - 1)
    THEN [err |-> NoErr, val |-> TAG_NAMES[tag_type + 1]]
    ELSE IF tag_type \in (-Len(TAG_NAMES))..(-1)
    THEN [err |-> NoErr, val |-> TAG_NAMES[Len(TAG_NAMES) + tag_type + 1]]
    ELSE [err |-> Exc("ValueError", "does not represent a type of NBT tag"), val |-> ""]

tag_array_type_to_item_type(tag_type) == TAG_ARRAY_SUBTYPES(tag_type)

----------------------------------------------------------------------------
(* str.encode('utf-8') and bytes.decode(): UTF-8, strict *)

Utf8Char(c) ==
    IF c < 128 THEN << c >>
    ELSE IF c < 2048 THEN << 192 + (c \div 64), 128 + (c % 64) >>
    ELSE IF c < 65536
    THEN << 224 + (c \div 4096), 128 + ((c \div 64) % 64), 128 + (c % 64) >>
    ELSE << 240 + (c \div 262144), 128 + ((c \div 4096) % 64),
            128 + ((c \div 64) % 64), 128 + (c % 64) >>

IsSurrogate(c) == c >= 55296 /\ c <= 57343

RECURSIVE Utf8Bytes(_)
Utf8Bytes(s) == IF s = <<>> THEN <<>> ELSE Utf8Char(Head(s)) \o Utf8Bytes(Tail(s))

str_encode(s) ==
    IF \E i \in 1..Len(s) : IsSurrogate(s[i])
    THEN [err |-> Exc("UnicodeEncodeError", "surrogates not allowed"), bytes |-> <<>>]
    ELSE [err |-> NoErr, bytes |-> Utf8Bytes(s)]

IsCont(b, i) == i <= Len(b) /\ b[i] >= 128 /\ b[i] <= 191

(* the length of the well-formed UTF-8 sequence that starts at b[i], 0 if none *)
Utf8SeqLen(b, i) ==
    LET c == b[i] IN
    IF c < 128 THEN 1
    ELSE IF c >= 194 /\ c <= 223 /\ IsCont(b, i + 1) THEN 2
    ELSE IF c >= 224 /\ c <= 239 /\ IsCont(b, i + 1) /\ IsCont(b, i + 2)
            /\ (c = 224 => b[i + 1] >= 160) /\ (c = 237 => b[i + 1] <= 159) THEN 3
    ELSE IF c >= 240 /\ c <= 244 /\ IsCont(b, i + 1) /\ IsCont(b, i + 2)
            /\ IsCont(b, i + 3)
            /\ (c = 240 => b[i + 1] >= 144) /\ (c = 244 => b[i + 1] <= 143) THEN 4
    ELSE 0

Utf8Point(b, i, n) ==
    CASE n = 1 -> b[i]
      [] n = 2 -> ((b[i] - 192) * 64) + (b[i + 1] - 128)
      [] n = 3 -> ((b[i] - 224) * 4096) + ((b[i + 1] - 128) * 64) + (b[i + 2] - 128)
      [] n = 4 -> ((b[i] - 240) * 262144) + ((b[i + 1] - 128) * 4096)
                  + ((b[i + 2] - 128) * 64) + (b[i + 3] - 128)

RECURSIVE Utf8Decode(_, _, _)
Utf8Decode(b, i, acc) ==
    IF i > Len(b) THEN [err |-> NoErr, val |-> acc]
    ELSE LET n == Utf8SeqLen(b, i) IN
         IF n = 0
         THEN [err |-> Exc("UnicodeDecodeError", "invalid utf-8"), val |-> <<>>]
         ELSE Utf8Decode(b, i + n, Append(acc, Utf8Point(b, i, n)))

bytes_decode(b) == Utf8Decode(b, 1, <<>>)

----------------------------------------------------------------------------
(* struct.pack / struct.unpack with '>f' and '>d'.  A Python float is held   *)
(* as its binary64 bytes, so '>d' copies them; '>f' converts to and from     *)
(* binary32 (sign s, biased exponent e, 23 fraction bits m).                 *)

F32(s, e, m) ==
    << (s * 128) + (e \div 2), ((e % 2) * 128) + (m \div 65536), (m \div 256) % 256, m % 256 >>

(* the binary64 whose fraction is the 23 bits m followed by 29 zero bits *)
F64(s, e, m) ==
    << (s * 128) + (e \div 16), ((e % 16) * 16) + (m \div 524288), (m \div 2048) % 256,
       (m \div 8) % 256, (m % 8) * 32, 0, 0, 0 >>

RECURSIVE BitLen(_)
BitLen(n) == IF n = 0 THEN 0 ELSE 1 + BitLen(n \div 2)

(* binary32 to binary64: exact *)
Widen(b) ==
    LET s == b[1] \div 128
        e == ((b[1] % 128) * 2) + (b[2] \div 128)
        m == ((b[2] % 128) * 65536) + (b[3] * 256) + b[4]
        p == BitLen(m) - 1
    IN  IF e = 0 /\ m = 0 THEN F64(s, 0, 0)
        ELSE IF e = 0 THEN F64(s, 874 + p, (m - (2^p)) * (2^(23 - p)))
        ELSE IF e = 255 THEN F64(s, 2047, m)
        ELSE F64(s, e + 896, m)

(* binary64 to binary32: round to nearest, ties to even; a finite value     *)
(* that rounds to infinity is an OverflowError                              *)
Narrow(d) ==
    LET s == d[1] \div 128
        e == ((d[1] % 128) * 16) + (d[2] \div 16)
        m == ((d[2] % 16) * 524288) + (d[3] * 2048) + (d[4] * 8) + (d[5] \div 32)
        rh == d[5] % 32
        rl == d[6] # 0 \/ d[7] # 0 \/ d[8] # 0
        up == rh > 16 \/ (rh = 16 /\ rl) \/ (rh = 16 /\ ~rl /\ (m % 2) = 1)
        m2 == IF up THEN m + 1 ELSE m
        e2 == IF m2 = 8388608 THEN e - 895 ELSE e - 896
        k == 897 - e
        sig == 8388608 + m
        q == sig \div (2^k)
        rem == sig % (2^k)
        low == rh # 0 \/ rl
        upS == rem > 2^(k - 1) \/ (rem = 2^(k - 1) /\ low)
               \/ (rem = 2^(k - 1) /\ ~low /\ (q % 2) = 1)
        mS == IF upS THEN q + 1 ELSE q
        ovf == [err |-> Exc("OverflowError", "float too large to pack with f format"),
                bytes |-> <<>>]
    IN  IF e = 2047
        THEN [err |-> NoErr,
              bytes |-> F32(s, 255, IF m = 0 /\ low THEN 4194304 ELSE m)]
        ELSE IF e > 1150 THEN ovf
        ELSE IF e >= 897
        THEN IF e2 >= 255 THEN ovf
             ELSE [err |-> NoErr, bytes |-> F32(s, e2, m2 % 8388608)]
        ELSE IF e >= 873
        THEN [err |-> NoErr,
              bytes |-> IF mS = 8388608 THEN F32(s, 1, 0) ELSE F32(s, 0, mS)]
        ELSE [err |-> NoErr, bytes |-> F32(s, 0, 0)]

struct_pack_f(x) == Narrow(x)
struct_pack_d(x) == [err |-> NoErr, bytes |-> x]

struct_unpack_f(b) ==
    IF Len(b) # 4
    THEN [err |-> Exc("struct.error", "unpack requires a buffer of 4 bytes"), val |-> Zeros(8)]
    ELSE [err |-> NoErr, val |-> Widen(b)]

struct_unpack_d(b) ==
    IF Len(b) # 8
    THEN [err |-> Exc("struct.error", "unpack requires a buffer of 8 bytes"), val |-> Zeros(8)]
    ELSE [err |-> NoErr, val |-> b]

----------------------------------------------------------------------------
(* class TagPayload *)

(* the value argument of the constructor, by its Python type *)
PyNone == [t |-> "None", v |-> <<>>]
VInt(x) == [t |-> "int", v |-> x]
VFloat(x) == [t |-> "float", v |-> x]
VStr(x) == [t |-> "str", v |-> x]
VList(x) == [t |-> "list", v |-> x]
VDict(x) == [t |-> "dict", v |-> x]

(* the attributes __init__ sets before it looks at tag_value *)
Fresh(tag_kind, list_item_kind) ==
    [ tag_kind |-> tag_kind, list_item_kind |-> list_item_kind,
      val_int |-> PyInt(0), val_float |-> Zeros(8), val_str |-> <<>>,
      val_list |-> <<>>, val_comp |-> <<>> ]

(* property item_kind *)
item_kind(self) ==
    IF self.tag_kind = TAG_LIST THEN self.list_item_kind
    ELSE tag_array_type_to_item_type(self.tag_kind)

Least(S) == CHOOSE i \in S : \A j \in S : i <= j

(* TagPayload.__init__ *)
TagPayload(tag_kind, tag_value, list_item_kind) ==
    LET self == Fresh(tag_kind, list_item_kind)
        fail(e) == [err |-> e, val |-> Fresh(TAG_END, TAG_END)]
        done(p) == [err |-> NoErr, val |-> p]
    IN
    IF tag_kind \notin ALL_TAG_TYPES
    THEN fail(Exc("ValueError", "invalid tag_kind"))
    ELSE IF tag_kind = TAG_LIST /\ list_item_kind = TAG_END
    THEN fail(Exc("ValueError", "must provide a tag list_item_kind argument"))
    ELSE IF tag_value.t = "None" THEN done(self)
    ELSE IF tag_kind \in IntKinds /\ tag_value.t = "int"
    THEN LET r == int_sized(tag_value.v, numeric_tag_size(tag_kind).val) IN
         IF r.err # NoErr THEN fail(r.err)
         ELSE done([self EXCEPT !.val_int = r.val])
    ELSE IF tag_kind \in FloatKinds /\ tag_value.t = "float"
    THEN done([self EXCEPT !.val_float = tag_value.v])
    ELSE IF tag_kind = TAG_STRING /\ tag_value.t = "str"
    THEN done([self EXCEPT !.val_str = tag_value.v])
    ELSE IF tag_kind \in ({TAG_LIST} \cup ArrayKinds) /\ tag_value.t = "list"
    THEN LET bad == { i \in 1..Len(tag_value.v) :
                         tag_value.v[i].tag_kind # item_kind(self) }
         IN  IF bad = {} THEN done([self EXCEPT !.val_list = tag_value.v])
             ELSE IF tag_kind_to_str(item_kind(self)).err # NoErr
             THEN fail(tag_kind_to_str(item_kind(self)).err)
             ELSE fail(ExcAt("ValueError", "item is not of the expected kind",
                             Least(bad) - 1))
    ELSE IF tag_kind = TAG_COMPOUND /\ tag_value.t = "dict"
    THEN done([self EXCEPT !.val_comp = tag_value.v])
    ELSE fail(Exc("TypeError", "cannot assign value of this type"))

(* the subclasses, which only fix the kind *)
TagEnd == TagPayload(TAG_END, PyNone, TAG_END)
TagByte(val) == TagPayload(TAG_BYTE, val, TAG_END)
TagShort(val) == TagPayload(TAG_SHORT, val, TAG_END)
TagInt(val) == TagPayload(TAG_INT, val, TAG_END)
TagLong(val) == TagPayload(TAG_LONG, val, TAG_END)
TagFloat(val) == TagPayload(TAG_FLOAT, val, TAG_END)
TagDouble(val) == TagPayload(TAG_DOUBLE, val, TAG_END)
TagByteArray(val) == TagPayload(TAG_BYTE_ARRAY, val, TAG_END)
TagString(val) == TagPayload(TAG_STRING, val, TAG_END)
TagList(item_type, values) == TagPayload(TAG_LIST, values, item_type)
TagCompound(values) == TagPayload(TAG_COMPOUND, values, TAG_END)
TagIntArray(values) == TagPayload(TAG_INT_ARRAY, values, TAG_END)
TagLongArray(values) == TagPayload(TAG_LONG_ARRAY, values, TAG_END)

(* NamedTag.__init__; payload is PyNone when the argument is left out *)
NamedTag(name, payload) ==
    [name |-> name, payload |-> IF "t" \in DOMAIN payload THEN TagEnd.val ELSE payload]

(* a wrong order: a new key goes before the others *)
DictSet_front(d, key, value) ==
    IF \E i \in 1..Len(d) : d[i].name = key
    THEN [i \in 1..Len(d) |-> IF d[i].name = key THEN [d[i] EXCEPT !.payload = value] ELSE d[i]]
    ELSE << [name |-> key, payload |-> value] >> \o d

(* dict[key] = value: replaces in place, or appends a new key *)
DictSet(d, key, value) ==
    IF \E i \in 1..Len(d) : d[i].name = key
    THEN [i \in 1..Len(d) |-> IF d[i].name = key THEN [d[i] EXCEPT !.payload = value] ELSE d[i]]
    ELSE Append(d, [name |-> key, payload |-> value])

(* list[i] with a Python int i: items are counted from the end when i < 0 *)
ListIndex(l, i) ==
    IF i >= Len(l) \/ i < -Len(l) THEN 0
    ELSE IF i < 0 THEN Len(l) + i + 1 ELSE i + 1

(* dict[key]: the position of the key, 0 when it is missing *)
DictIndex(d, key) ==
    IF \E i \in 1..Len(d) : d[i].name = key
    THEN CHOOSE i \in 1..Len(d) : d[i].name = key
    ELSE 0

(* the kinds __len__ and __getitem__ take for list-like, and the kinds       *)
(* __setitem__ takes for arrays                                               *)
ListLikeKinds == { TAG_LIST, TAG_BYTE_ARRAY, TAG_INT, TAG_LONG_ARRAY }
ArrayLikeKinds == { TAG_BYTE_ARRAY, TAG_INT, TAG_LONG_ARRAY }

(* TagPayload.__getitem__ *)
getitem(self, index) ==
    IF self.tag_kind \in ListLikeKinds
    THEN IF index.t # "int"
         THEN [err |-> Exc("TypeError", "may only be indexed by int"), val |-> PyNone]
         ELSE IF ListIndex(self.val_list, AsNum(index.v)) = 0
         THEN [err |-> Exc("IndexError", "list index out of range"), val |-> PyNone]
         ELSE [err |-> NoErr, val |-> self.val_list[ListIndex(self.val_list, AsNum(index.v))]]
    ELSE IF self.tag_kind = TAG_COMPOUND
    THEN IF index.t # "str"
         THEN [err |-> Exc("TypeError", "may only be indexed by str"), val |-> PyNone]
         ELSE IF DictIndex(self.val_comp, index.v) = 0
         THEN [err |-> Exc("KeyError", "key"), val |-> PyNone]
         ELSE [err |-> NoErr, val |-> self.val_comp[DictIndex(self.val_comp, index.v)].payload]
    ELSE [err |-> Exc("AttributeError", "is not indexable"), val |-> PyNone]

(* an assignment that overwrites every entry of the list *)
ListSet_every(self, index, value) ==
    IF ListIndex(self.val_list, AsNum(index.v)) = 0
    THEN [err |-> Exc("IndexError", "list assignment index out of range"), val |-> self]
    ELSE [err |-> NoErr,
          val |-> [self EXCEPT !.val_list = [j \in 1..Len(@) |-> value]]]

(* self.val_list[index] = value *)
ListSet(self, index, value) ==
    IF ListIndex(self.val_list, AsNum(index.v)) = 0
    THEN [err |-> Exc("IndexError", "list assignment index out of range"), val |-> self]
    ELSE [err |-> NoErr,
          val |-> [self EXCEPT !.val_list[ListIndex(self.val_list, AsNum(index.v))] = value]]

(* TagPayload.__setitem__: val is self after the call *)
setitem(self, index, value) ==
    IF self.tag_kind = TAG_LIST
    THEN IF index.t # "int"
         THEN [err |-> Exc("TypeError", "may only be indexed by int"), val |-> self]
         ELSE IF self.list_item_kind # value.tag_kind
         THEN [err |-> Exc("ValueError", "Cannot assign an element to a value of this kind"), val |-> self]
         ELSE ListSet(self, index, value)
    ELSE IF self.tag_kind \in ArrayLikeKinds
    THEN IF index.t # "int"
         THEN [err |-> Exc("TypeError", "may only be indexed by int"), val |-> self]
         ELSE IF tag_array_type_to_item_type(self.tag_kind) # value.tag_kind
         THEN [err |-> Exc("ValueError", "Cannot assign an element to a value of this kind"), val |-> self]
         ELSE ListSet(self, index, value)
    ELSE IF self.tag_kind = TAG_COMPOUND
    THEN IF index.t # "str"
         THEN [err |-> Exc("ValueError", "Cannot assign an element to a value of this kind"), val |-> self]
         ELSE [err |-> NoErr, val |-> [self EXCEPT !.val_comp = DictSet(@, index.v, value)]]
    ELSE [err |-> Exc("AttributeError", "is not indexable"), val |-> self]

----------------------------------------------------------------------------
(* Reading.  The file is a byte sequence f and a cursor pos, the number of   *)
(* bytes consumed; every reader returns the cursor it leaves behind.         *)

(* file.read(n) of a file opened with open(name, "rb") or gzip.open: at most *)
(* n bytes, everything that is left when n = -1, a ValueError when n < -1    *)
file_read(f, pos, n) ==
    LET stop == IF n < 0 \/ pos + n > Len(f) THEN Len(f) ELSE pos + n IN
    IF n < -1
    THEN [err |-> Exc("ValueError", "read length must be non-negative or -1"),
          bytes |-> <<>>, pos |-> pos]
    ELSE [err |-> NoErr, bytes |-> SubSeq(f, pos + 1, stop), pos |-> stop]

RErr(e, pos) == [err |-> e, val |-> Fresh(TAG_END, TAG_END), pos |-> pos]
ROk(c, pos) == [err |-> c.err, val |-> c.val, pos |-> pos]

(* sequencing: K is what follows the call that returned v, unless it raised. *)
(* The call is evaluated once, as the singleton's element w, and its result  *)
(* handed on; out is the one value of what follows.                          *)
Let(v, K(_)) == CHOOSE out \in { K(w) : w \in { v } } : TRUE
Bind(r, K(_)) ==
    CHOOSE out \in { IF w.err # NoErr THEN RErr(w.err, w.pos) ELSE K(w) : w \in { r } } : TRUE
Try(x, pos, K(_)) ==
    CHOOSE out \in { IF w.err # NoErr THEN RErr(w.err, pos) ELSE K(w.val) : w \in { x } } : TRUE

RECURSIVE read_from_file(_, _, _)
RECURSIVE ReadItems(_, _, _, _, _)
RECURSIVE ReadMembers(_, _, _)
RECURSIVE NamedTag_read_from_file(_, _)

(* TagPayload.read_from_file *)
read_from_file(tag_kind, f, pos) ==
    LET k == tag_kind IN
    IF k = TAG_END THEN ROk(TagPayload(k, PyNone, TAG_END), pos)
    ELSE IF k \in IntKinds
    THEN Let(file_read(f, pos, numeric_tag_size(k).val), LAMBDA r :
         Try(nbt_int_from_bytes(r.bytes, numeric_tag_size(k).val), r.pos, LAMBDA x :
         ROk(TagPayload(k, VInt(x), TAG_END), r.pos)))
    ELSE IF k = TAG_FLOAT
    THEN Let(file_read(f, pos, numeric_tag_size(TAG_FLOAT).val), LAMBDA r :
         Try(struct_unpack_f(r.bytes), r.pos, LAMBDA x :
         ROk(TagPayload(k, VFloat(x), TAG_END), r.pos)))
    ELSE IF k = TAG_DOUBLE
    THEN Let(file_read(f, pos, numeric_tag_size(TAG_DOUBLE).val), LAMBDA r :
         Try(struct_unpack_d(r.bytes), r.pos, LAMBDA x :
         ROk(TagPayload(k, VFloat(x), TAG_END), r.pos)))
    ELSE IF k = TAG_STRING
    THEN Bind(read_from_file(TAG_SHORT, f, pos), LAMBDA str_len :
         Bind(file_read(f, str_len.pos, AsNum(str_len.val.val_int)), LAMBDA r :
         Try(bytes_decode(r.bytes), r.pos, LAMBDA s :
         ROk(TagPayload(k, VStr(s), TAG_END), r.pos))))
    ELSE IF k = TAG_LIST
    THEN Bind(read_from_file(TAG_BYTE, f, pos), LAMBDA item_type :
         Bind(read_from_file(TAG_INT, f, item_type.pos), LAMBDA item_count :
         Bind(ReadItems(AsNum(item_type.val.val_int), item_count.val.val_int,
                        f, item_count.pos, <<>>), LAMBDA items :
         ROk(TagPayload(k, VList(items.val), AsNum(item_type.val.val_int)), items.pos))))
    ELSE IF k \in ArrayKinds
    THEN Bind(read_from_file(TAG_INT, f, pos), LAMBDA item_count :
         Bind(ReadItems(tag_array_type_to_item_type(k), item_count.val.val_int,
                        f, item_count.pos, <<>>), LAMBDA items :
         ROk(TagPayload(k, VList(items.val), TAG_END), items.pos)))
    ELSE IF k = TAG_COMPOUND
    THEN Bind(ReadMembers(f, pos, <<>>), LAMBDA compound :
         ROk(TagPayload(k, VDict(compound.val), TAG_END), compound.pos))
    ELSE RErr(Exc("ValueError", "cannot read a tag with invalid tag kind"), pos)

(* [ TagPayload.read_from_file(item_type, file) for _ in range(item_count) ]  *)
(* item_count is the Python int read from the file; range() of a count that  *)
(* is not positive is empty.  Items of kind TAG_END take no bytes and leave   *)
(* a list that the constructor refuses for its item kind, whatever it holds,  *)
(* so they are not enumerated.                                                *)
ReadItems(item_type, item_count, f, pos, acc) ==
    IF item_count.neg \/ item_count.mag = <<>> \/ item_type = TAG_END
       \/ Len(acc) = AsNum(item_count)
    THEN [err |-> NoErr, val |-> acc, pos |-> pos]
    ELSE Bind(read_from_file(item_type, f, pos), LAMBDA x :
         ReadItems(item_type, item_count, f, x.pos, Append(acc, x.val)))

(* a loop that keeps the member read first under a name *)
ReadMembers_first_wins(f, pos, compound) ==
    Bind(NamedTag_read_from_file(f, pos), LAMBDA named_tag :
    IF named_tag.val.payload.tag_kind = TAG_END
    THEN [err |-> NoErr, val |-> compound, pos |-> named_tag.pos]
    ELSE ReadMembers(f, named_tag.pos,
                     IF DictIndex(compound, named_tag.val.name) # 0 THEN compound
                     ELSE DictSet(compound, named_tag.val.name, named_tag.val.payload)))

(* while (named_tag := NamedTag.read_from_file(file)).payload.tag_kind != TAG_END *)
ReadMembers(f, pos, compound) ==
    Bind(NamedTag_read_from_file(f, pos), LAMBDA named_tag :
    IF named_tag.val.payload.tag_kind = TAG_END
    THEN [err |-> NoErr, val |-> compound, pos |-> named_tag.pos]
    ELSE ReadMembers(f, named_tag.pos,
                     DictSet(compound, named_tag.val.name, named_tag.val.payload)))

(* the exceptions the try block around the kind byte catches *)
CaughtAtKindByte == {"IndexError", "EOFError"}

NOk(nt, pos) == [err |-> NoErr, val |-> nt, pos |-> pos]

(* NamedTag._read_from_file *)
NamedTag_read_from_file(f, pos) ==
    Let(read_from_file(TAG_BYTE, f, pos), LAMBDA kind :
    IF kind.err.type \in CaughtAtKindByte THEN NOk(NamedTag(<<>>, PyNone), kind.pos)
    ELSE IF kind.err # NoErr THEN RErr(kind.err, kind.pos)
    ELSE IF AsNum(kind.val.val_int) \notin ALL_TAG_TYPES
    THEN RErr(Exc("ValueError", "encountered invalid tag type byte value"), kind.pos)
    ELSE IF AsNum(kind.val.val_int) = TAG_END
    THEN NOk(NamedTag(<<>>, PyNone), kind.pos)
    ELSE Bind(read_from_file(TAG_STRING, f, kind.pos), LAMBDA name_tag :
         Bind(read_from_file(AsNum(kind.val.val_int), f, name_tag.pos), LAMBDA data_tag :
         NOk(NamedTag(name_tag.val.val_str, data_tag.val), data_tag.pos))))

----------------------------------------------------------------------------
(* Writing.  A writer returns the bytes it wrote to the file, in order, and  *)
(* the exception that stopped it, if any: what was written before stays.     *)

Wrote(b) == [err |-> NoErr, out |-> b]
Raw(b) == [err |-> b.err, out |-> b.bytes]
Then(a, b) == IF a.err # NoErr THEN a ELSE [err |-> b.err, out |-> a.out \o b.out]

RECURSIVE write_to_file(_)
RECURSIVE WriteItems(_, _)
RECURSIVE WriteMembers(_, _)
RECURSIVE NamedTag_write_to_file(_)

(* constructs a tag and writes it: TagShort(n).write_to_file(file) and alike *)
WriteNew(c) == IF c.err # NoErr THEN [err |-> c.err, out |-> <<>>] ELSE write_to_file(c.val)

(* TagPayload.write_to_file *)
write_to_file(self) ==
    LET k == self.tag_kind IN
    IF k = TAG_END THEN Wrote(<<>>)
    ELSE IF k \in IntKinds
    THEN Raw(nbt_int_to_bytes(self.val_int, numeric_tag_size(k).val))
    ELSE IF k = TAG_FLOAT THEN Raw(struct_pack_f(self.val_float))
    ELSE IF k = TAG_DOUBLE THEN Raw(struct_pack_d(self.val_float))
    ELSE IF k = TAG_STRING
    THEN Then(WriteNew(TagShort(VInt(PyInt(Len(self.val_str))))),
              Raw(str_encode(self.val_str)))
    ELSE IF k \in ({TAG_LIST} \cup ArrayKinds)
    THEN Then(IF k = TAG_LIST
              THEN WriteNew(TagByte(VInt(PyInt(self.list_item_kind))))
              ELSE Wrote(<<>>),
         Then(WriteNew(TagInt(VInt(PyInt(Len(self.val_list))))),
              WriteItems(self.val_list, 1)))
    ELSE IF k = TAG_COMPOUND
    THEN Then(WriteMembers(self.val_comp, 1),
              NamedTag_write_to_file(NamedTag(<<>>, PyNone)))
    ELSE [err |-> Exc("ValueError", "unhandled/invalid tag_kind"), out |-> <<>>]

(* for tag in self.val_list: tag.write_to_file(file) *)
WriteItems(val_list, i) ==
    IF i > Len(val_list) THEN Wrote(<<>>)
    ELSE Then(write_to_file(val_list[i]), WriteItems(val_list, i + 1))

(* for name, tag in self.val_comp.items(), leaving the loop at a tag_end *)
WriteMembers(val_comp, i) ==
    IF i > Len(val_comp) \/ val_comp[i].payload.tag_kind = TAG_END THEN Wrote(<<>>)
    ELSE Then(NamedTag_write_to_file(NamedTag(val_comp[i].name, val_comp[i].payload)),
              WriteMembers(val_comp, i + 1))

(* a wrong order: the name before the kind byte *)
NamedTag_write_to_file_name_first(self) ==
    IF self.payload.tag_kind = TAG_END
    THEN WriteNew(TagPayload(TAG_BYTE, VInt(PyInt(self.payload.tag_kind)), TAG_END))
    ELSE Then(WriteNew(TagString(VStr(self.name))),
         Then(WriteNew(TagPayload(TAG_BYTE, VInt(PyInt(self.payload.tag_kind)), TAG_END)),
              write_to_file(self.payload)))

(* NamedTag.write_to_file *)
NamedTag_write_to_file(self) ==
    Then(WriteNew(TagPayload(TAG_BYTE, VInt(PyInt(self.payload.tag_kind)), TAG_END)),
         IF self.payload.tag_kind = TAG_END THEN Wrote(<<>>)
         ELSE Then(WriteNew(TagString(VStr(self.name))), write_to_file(self.payload)))

----------------------------------------------------------------------------
(* nbt/full.py, the draft with one class per kind: an object is its class's  *)
(* kind and its _val (a list also has its _item_kind)                         *)

nbt_full_int_sized(x, size_bytes) ==
    IF bit_length(x) > 8 * size_bytes
    THEN [err |-> Exc("ValueError", "magnitude of integer value is too large"), val |-> x]
    ELSE [err |-> NoErr, val |-> x]

nbt_full_tag_kind_to_str(tag_type) ==
    IF tag_type \in 0..12 THEN [err |-> NoErr, val |-> TAG_NAMES[tag_type + 1]]
    ELSE IF tag_type \in -13..-1 THEN [err |-> NoErr, val |-> TAG_NAMES[tag_type + 14]]
    ELSE [err |-> Exc("ValueError", "int value does not represent a type of NBT tag"), val |-> ""]

Obj(kind, ik, val) == [kind |-> kind, item_kind |-> ik, val |-> val]

nbt_full_TagInt(val) ==
    [err |-> nbt_full_int_sized(val, 4).err, val |-> Obj(TAG_INT, TAG_END, VInt(val))]

nbt_full_TagString(val) == Obj(TAG_STRING, TAG_END, VStr(val))

(* TagList.__init__: the loop stops at the first item of another kind, with  *)
(* the error of tag_kind_to_str or a TypeError whose message has the item's  *)
(* class name and the expected kind's name                                    *)
nbt_full_TagList(ik, val) ==
    IF \E i \in 1..Len(val) : val[i].kind # ik
    THEN [err |-> IF nbt_full_tag_kind_to_str(ik).err # NoErr
                  THEN nbt_full_tag_kind_to_str(ik).err
                  ELSE Exc("TypeError", "NBT item does not have the same NBT type as the TagList's expected item type"),
          val |-> PyNone]
    ELSE [err |-> NoErr, val |-> Obj(TAG_LIST, ik, VList(val))]

nbt_full_TagEnd == Obj(TAG_END, TAG_END, PyNone)

(* TagCompound.__init__ from a dict: TagEnd values are left out *)
nbt_full_TagCompound(val) ==
    Obj(TAG_COMPOUND, TAG_END, VDict(SelectSeq(val, LAMBDA m : m.payload.kind # TAG_END)))

nbt_full_NamedTag(name, payload) == [name |-> name, payload |-> payload]

(* bytes(TagByte(x)), bytes(TagShort(x)), bytes(TagInt(x)): the constructor's *)
(* int_sized, then nbt_int_to_bytes                                           *)
nbt_full_int_bytes(x, size) ==
    IF nbt_full_int_sized(x, size).err # NoErr
    THEN [err |-> nbt_full_int_sized(x, size).err, out |-> <<>>]
    ELSE Raw(nbt_int_to_bytes(x, size))

RECURSIVE nbt_full_bytes(_)
RECURSIVE nbt_full_items_bytes(_, _)
RECURSIVE nbt_full_members_bytes(_, _)
RECURSIVE nbt_full_NamedTag_bytes(_)

(* __bytes__ of TagEnd, TagInt, TagString, TagList and TagCompound *)
nbt_full_bytes(self) ==
    IF self.kind = TAG_END THEN Wrote(<<>>)
    ELSE IF self.kind = TAG_INT THEN Raw(nbt_int_to_bytes(self.val.v, 4))
    ELSE IF self.kind = TAG_STRING
    THEN Then(nbt_full_int_bytes(PyInt(Len(self.val.v)), 2), Raw(str_encode(self.val.v)))
    ELSE IF self.kind = TAG_LIST
    THEN Then(nbt_full_int_bytes(PyInt(self.item_kind), 1),
         Then(nbt_full_int_bytes(PyInt(Len(self.val.v)), 4),
              nbt_full_items_bytes(self.val.v, 1)))
    ELSE Then(nbt_full_members_bytes(self.val.v, 1),
              nbt_full_NamedTag_bytes(nbt_full_NamedTag(<<>>, nbt_full_TagEnd)))

nbt_full_items_bytes(val, i) ==
    IF i > Len(val) THEN Wrote(<<>>)
    ELSE Then(nbt_full_bytes(val[i]), nbt_full_items_bytes(val, i + 1))

(* for name, tag in self._val.items(), passing over TagEnd values *)
nbt_full_members_bytes(val, i) ==
    IF i > Len(val) THEN Wrote(<<>>)
    ELSE IF val[i].payload.kind = TAG_END THEN nbt_full_members_bytes(val, i + 1)
    ELSE Then(nbt_full_NamedTag_bytes(nbt_full_NamedTag(val[i].name, val[i].payload)),
              nbt_full_members_bytes(val, i + 1))

(* NamedTag.__bytes__ *)
(* TagArrayABC.__setitem__ with a value that is a TagDataABC:                 *)
(* self.value[index] = value                                                 *)
nbt_full_setitem(self, index, value) ==
    IF ListIndex(self.val.v, AsNum(index.v)) = 0
    THEN [err |-> Exc("IndexError", "list assignment index out of range"), val |-> self]
    ELSE [err |-> NoErr,
          val |-> [self EXCEPT !.val.v[ListIndex(self.val.v, AsNum(index.v))] = value]]

(* TagList.append with an item that is a TagDataABC: self._val.append(item) *)
nbt_full_append(self, item) ==
    [err |-> NoErr, val |-> [self EXCEPT !.val.v = Append(@, item)]]

(* NamedTag.__init__ with a payload that may be None: the isinstance check   *)
(* comes before the default TagEnd() is put in                                *)
nbt_full_NamedTag_init(name, payload) ==
    IF "kind" \notin DOMAIN payload
    THEN [err |-> Exc("TypeError", "a NamedTag must be initialized with a payload that is an instance of TagDataABC"),
          val |-> nbt_full_NamedTag(name, nbt_full_TagEnd)]
    ELSE [err |-> NoErr, val |-> nbt_full_NamedTag(name, payload)]

nbt_full_NamedTag_bytes(self) ==
    Then(Wrote(<< self.payload.kind >>),
         IF self.payload.kind = TAG_END THEN Wrote(<<>>)
         ELSE Then(nbt_full_bytes(nbt_full_TagString(self.name)),
                   nbt_full_bytes(self.payload)))

(* file.write(bytes(self)): nothing is written when bytes() raises *)
WriteAll(b) == IF b.err # NoErr THEN [err |-> b.err, out |-> <<>>] ELSE b

(* NamedTag.write_to_file *)
nbt_full_NamedTag_write_to_file(self) == WriteAll(nbt_full_NamedTag_bytes(self))

RECURSIVE nbt_full_write_to_file_stepped(_)
RECURSIVE nbt_full_items_stepped(_, _)
RECURSIVE nbt_full_members_stepped(_, _)
RECURSIVE nbt_full_NamedTag_write_to_file_stepped(_)

(* write_to_file_stepped: TagList and TagCompound override the default,      *)
(* which is file.write(bytes(self))                                           *)
nbt_full_write_to_file_stepped(self) ==
    IF self.kind = TAG_LIST
    THEN Then(WriteAll(nbt_full_int_bytes(PyInt(self.item_kind), 1)),
         Then(WriteAll(nbt_full_int_bytes(PyInt(Len(self.val.v)), 2)),
              nbt_full_items_stepped(self.val.v, 1)))
    ELSE IF self.kind = TAG_COMPOUND
    THEN Then(nbt_full_members_stepped(self.val.v, 1),
              nbt_full_NamedTag_write_to_file_stepped(nbt_full_NamedTag(<<>>, nbt_full_TagEnd)))
    ELSE WriteAll(nbt_full_bytes(self))

nbt_full_items_stepped(val, i) ==
    IF i > Len(val) THEN Wrote(<<>>)
    ELSE Then(nbt_full_write_to_file_stepped(val[i]), nbt_full_items_stepped(val, i + 1))

nbt_full_members_stepped(val, i) ==
    IF i > Len(val) THEN Wrote(<<>>)
    ELSE IF val[i].payload.kind = TAG_END THEN nbt_full_members_stepped(val, i + 1)
    ELSE Then(nbt_full_NamedTag_write_to_file_stepped(
                  nbt_full_NamedTag(val[i].name, val[i].payload)),
              nbt_full_members_stepped(val, i + 1))

(* NamedTag.write_to_file_stepped *)
nbt_full_NamedTag_write_to_file_stepped(self) ==
    Then(WriteAll(nbt_full_int_bytes(PyInt(self.payload.kind), 1)),
         IF self.payload.kind = TAG_END THEN Wrote(<<>>)
         ELSE Then(nbt_full_write_to_file_stepped(nbt_full_TagString(self.name)),
                   nbt_full_write_to_file_stepped(self.payload)))

----------------------------------------------------------------------------
(* nbt/nbt.py, the older class-per-kind codec: TagEnd, TagInt, TagString and *)
(* TagCompound. A TagCompound keeps the list _val of its NamedTags, closed   *)
(* by a NamedTag('', TagEnd()); its __bytes__ calls ensure_end, so encoding  *)
(* returns the object as the call leaves it beside the bytes.                *)

nbt_nbt_TagEnd == Obj(TAG_END, TAG_END, PyNone)

(* TagInt.__init__ keeps int(val) unchecked *)
nbt_nbt_TagInt(val) == Obj(TAG_INT, TAG_END, VInt(val))

nbt_nbt_TagString(val) == Obj(TAG_STRING, TAG_END, VStr(val))

nbt_nbt_NamedTag(name, payload) == [name |-> name, payload |-> payload]

(* TagCompound.ensure_end, after a variant that appends every time *)
nbt_nbt_ensure_end_always(self) ==
    [self EXCEPT !.val.v = Append(@, nbt_nbt_NamedTag(<<>>, nbt_nbt_TagEnd))]

nbt_nbt_ensure_end(self) ==
    IF Len(self.val.v) = 0 \/ self.val.v[Len(self.val.v)].payload.kind # TAG_END
    THEN [self EXCEPT !.val.v = Append(@, nbt_nbt_NamedTag(<<>>, nbt_nbt_TagEnd))]
    ELSE self

(* TagCompound.__init__ from a list of NamedTags, or from a dict, whose      *)
(* items become NamedTags in the dict's order                                *)
nbt_nbt_TagCompound(val) == nbt_nbt_ensure_end(Obj(TAG_COMPOUND, TAG_END, VList(val)))

(* an insertion that puts x behind the last item *)
ListInsertBeforeLast_behind(l, x) == Append(l, x)

(* list.insert(-1, x) puts x before the last item, and first in an empty list *)
ListInsertBeforeLast(l, x) ==
    IF Len(l) = 0 THEN << x >>
    ELSE SubSeq(l, 1, Len(l) - 1) \o << x, l[Len(l)] >>

(* TagCompound.append_before_end *)
nbt_nbt_append_before_end(self, named) ==
    [nbt_nbt_ensure_end(self) EXCEPT !.val.v = ListInsertBeforeLast(@, named)]

(* bytes(TagShort(x)) and bytes(TagInt(x)): int_to_bytes with no check before *)
nbt_nbt_int_bytes(x, size) == Raw(nbt_int_to_bytes(x, size))

(* the outcome of an encoding call: the error, the bytes, and the object      *)
(* after the call                                                             *)
Encoded(w, self) == [err |-> w.err, out |-> w.out, self |-> self]
After(prefix, r) == IF r.err # NoErr THEN r ELSE [r EXCEPT !.out = prefix \o @]

RECURSIVE nbt_nbt_bytes(_)
RECURSIVE nbt_nbt_members_bytes(_, _)
RECURSIVE nbt_nbt_NamedTag_bytes(_)

(* the loop of TagCompound.__bytes__ from member i on, given what             *)
(* bytes(named_tag) did with member i: it ends with the first TagEnd          *)
(* the loop without its break at the first TagEnd *)
NextMember_no_break(self, i, r) ==
    IF r.err # NoErr
    THEN [r EXCEPT !.self = [self EXCEPT !.val.v[i] = r.self]]
    ELSE After(r.out, nbt_nbt_members_bytes([self EXCEPT !.val.v[i] = r.self], i + 1))

NextMember(self, i, r) ==
    IF r.err # NoErr \/ self.val.v[i].payload.kind = TAG_END
    THEN [r EXCEPT !.self = [self EXCEPT !.val.v[i] = r.self]]
    ELSE After(r.out, nbt_nbt_members_bytes([self EXCEPT !.val.v[i] = r.self], i + 1))

nbt_nbt_members_bytes(self, i) ==
    IF i > Len(self.val.v) THEN Encoded(Wrote(<<>>), self)
    ELSE NextMember(self, i, nbt_nbt_NamedTag_bytes(self.val.v[i]))

(* __bytes__ of TagEnd, TagInt, TagString and TagCompound *)
nbt_nbt_bytes(self) ==
    IF self.kind = TAG_END THEN Encoded(Wrote(<<>>), self)
    ELSE IF self.kind = TAG_INT THEN Encoded(nbt_nbt_int_bytes(self.val.v, 4), self)
    ELSE IF self.kind = TAG_STRING
    THEN Encoded(Then(nbt_nbt_int_bytes(PyInt(Len(self.val.v)), 2),
                      Raw(str_encode(self.val.v))), self)
    ELSE nbt_nbt_members_bytes(nbt_nbt_ensure_end(self), 1)

(* NamedTag.__bytes__, given what bytes(self.payload) did *)
NamedEncoded(self, name, r) ==
    [err |-> Then(name, r).err,
     out |-> << self.payload.kind >> \o Then(name, r).out,
     self |-> IF name.err # NoErr THEN self ELSE [self EXCEPT !.payload = r.self]]

nbt_nbt_NamedTag_bytes(self) ==
    IF self.payload.kind = TAG_END THEN Encoded(Wrote(<< TAG_END >>), self)
    ELSE NamedEncoded(self, nbt_nbt_bytes(nbt_nbt_TagString(self.name)),
                      nbt_nbt_bytes(self.payload))

(* file.write(bytes(x)): what is written and what x is afterwards *)
WriteEncoded(r) == IF r.err # NoErr THEN [r EXCEPT !.out = <<>>] ELSE r

(* NamedTag.write_to_file *)
nbt_nbt_NamedTag_write_to_file(self) == WriteEncoded(nbt_nbt_NamedTag_bytes(self))

(* write_to_file_stepped: TagString overrides the default, which is          *)
(* file.write(bytes(self))                                                    *)
nbt_nbt_write_to_file_stepped(self) ==
    IF self.kind = TAG_STRING
    THEN Encoded(Then(WriteAll(nbt_nbt_int_bytes(PyInt(Len(self.val.v)), 2)),
                      Raw(str_encode(self.val.v))), self)
    ELSE WriteEncoded(nbt_nbt_bytes(self))

(* NamedTag.write_to_file_stepped, given what the payload's call did *)
SteppedAfterName(self, name, r) ==
    [err |-> Then(name, r).err,
     out |-> Then(name, r).out,
     self |-> IF name.err # NoErr THEN self ELSE [self EXCEPT !.payload = r.self]]

nbt_nbt_NamedTag_write_to_file_stepped(self) ==
    SteppedAfterName(self, WriteAll(nbt_nbt_bytes(nbt_nbt_TagString(self.name))),
                     nbt_nbt_write_to_file_stepped(self.payload))

(* Reading with nbt/nbt.py, for the kinds the script of nbt/nbt.py writes:    *)
(* the integers, TagString and TagCompound.                                   *)

BErr(e, pos) == [err |-> e, val |-> nbt_nbt_TagEnd, pos |-> pos]
BOk(v, pos) == [err |-> NoErr, val |-> v, pos |-> pos]
BBind(r, K(_)) == IF r.err # NoErr THEN BErr(r.err, r.pos) ELSE K(r)
BTry(x, pos, K(_)) == IF x.err # NoErr THEN BErr(x.err, pos) ELSE K(x.val)

(* TagByte, TagShort, TagInt and TagLong.read_from_file:                     *)
(* cls(cls.int_from_bytes(file.read(cls.size), cls.size))                    *)
nbt_nbt_int_read_from_file(kind, f, pos) ==
    Let(file_read(f, pos, TAG_NUMERIC_BYTE_COUNT(kind)), LAMBDA r :
    BTry(nbt_int_from_bytes(r.bytes, TAG_NUMERIC_BYTE_COUNT(kind)), r.pos, LAMBDA x :
    BOk(Obj(kind, TAG_END, VInt(x)), r.pos)))

(* TagString.read_from_file *)
nbt_nbt_TagString_read_from_file(f, pos) ==
    BBind(nbt_nbt_int_read_from_file(TAG_SHORT, f, pos), LAMBDA count :
    IF count.val.val.v = PyInt(0) THEN BOk(nbt_nbt_TagString(<<>>), count.pos)
    ELSE BBind(file_read(f, count.pos, AsNum(count.val.val.v)), LAMBDA r :
         BTry(bytes_decode(r.bytes), r.pos, LAMBDA x :
         BOk(nbt_nbt_TagString(x), r.pos))))

RECURSIVE nbt_nbt_dispatch_read_from_file(_, _, _)
RECURSIVE nbt_nbt_read_tags(_, _, _)
RECURSIVE nbt_nbt_NamedTag_read_from_file(_, _)

(* TagDataABC.dispatch_read_from_file; the other kinds are not modelled *)
nbt_nbt_dispatch_read_from_file(tag_kind, f, pos) ==
    IF tag_kind = TAG_END THEN BOk(nbt_nbt_TagEnd, pos)
    ELSE IF tag_kind \in IntKinds THEN nbt_nbt_int_read_from_file(tag_kind, f, pos)
    ELSE IF tag_kind = TAG_STRING THEN nbt_nbt_TagString_read_from_file(f, pos)
    ELSE IF tag_kind = TAG_COMPOUND
    THEN BBind(nbt_nbt_read_tags(f, pos, <<>>), LAMBDA tags :
         BOk(nbt_nbt_TagCompound(tags.val), tags.pos))
    ELSE BErr(Exc("NotModelled", "a kind the script does not write"), pos)

(* the loop of TagCompound.read_from_file: it reads named tags and appends   *)
(* each to tags, until the one appended last is an END                       *)
nbt_nbt_read_tags(f, pos, tags) ==
    BBind(nbt_nbt_NamedTag_read_from_file(f, pos), LAMBDA named :
    IF named.val.payload.kind = TAG_END
    THEN BOk(Append(tags, named.val), named.pos)
    ELSE nbt_nbt_read_tags(f, named.pos, Append(tags, named.val)))

(* NamedTag.read_from_file: the ValueError of int_from_bytes at the end of   *)
(* the file is none of the exceptions the try block catches                  *)
nbt_nbt_NamedTag_read_from_file(f, pos) ==
    Let(nbt_nbt_int_read_from_file(TAG_BYTE, f, pos), LAMBDA kind :
    IF kind.err.type \in CaughtAtKindByte
    THEN BOk(nbt_nbt_NamedTag(<<>>, nbt_nbt_TagEnd), kind.pos)
    ELSE IF kind.err # NoErr THEN BErr(kind.err, kind.pos)
    ELSE IF AsNum(kind.val.val.v) \notin ALL_TAG_TYPES
    THEN BErr(Exc("ValueError", "invalid tag type"), kind.pos)
    ELSE IF AsNum(kind.val.val.v) = TAG_END
    THEN BOk(nbt_nbt_NamedTag(<<>>, nbt_nbt_TagEnd), kind.pos)
    ELSE BBind(nbt_nbt_TagString_read_from_file(f, kind.pos), LAMBDA name_tag :
         BBind(nbt_nbt_dispatch_read_from_file(AsNum(kind.val.val.v), f, name_tag.pos),
               LAMBDA payload :
         BOk(nbt_nbt_NamedTag(name_tag.val.val.v, payload.val), payload.pos))))

(* nbtformat/printing.py.  The text printed is the sequence of the pieces    *)
(* given to print(): literal strings, and the values str() is applied to.    *)

(* TagPayload.__len__ *)
len(self) ==
    IF self.tag_kind \in ListLikeKinds THEN [err |-> NoErr, val |-> Len(self.val_list)]
    ELSE IF self.tag_kind = TAG_STRING THEN [err |-> NoErr, val |-> Len(self.val_str)]
    ELSE IF self.tag_kind = TAG_COMPOUND THEN [err |-> NoErr, val |-> Len(self.val_comp)]
    ELSE [err |-> Exc("AttributeError", "TagPayload of this kind does not have a len"),
          val |-> 0]

(* indent_str * n, the empty string when n is not positive *)
Indent(n) == [i \in 1..n |-> "  "]

(* what follows a call that returns a value or raises *)
Having(r, K(_)) == IF r.err # NoErr THEN [err |-> r.err, out |-> <<>>] ELSE K(r.val)

(* f"{b:02X}" of a TagPayload b: object.__format__ takes no format spec *)
object_format(b, format_spec) ==
    IF format_spec # ""
    THEN [err |-> Exc("TypeError", "unsupported format string passed to __format__"),
          out |-> <<>>]
    ELSE Wrote(<< [t |-> "object", v |-> b] >>)

RECURSIVE print_tag(_, _, _, _)
RECURSIVE PrintBytes(_, _)
RECURSIVE PrintItems(_, _, _)
RECURSIVE PrintMembers(_, _, _)

(* for b in tag.val_list: print(end = f"{b:02X} ") *)
PrintBytes(l, i) ==
    IF i > Len(l) THEN Wrote(<<>>)
    ELSE Then(object_format(l[i], "02X"), Then(Wrote(<< " " >>), PrintBytes(l, i + 1)))

(* for tag_i in tag.val_list: print_tag(tag_i, indent + 1, within_list=True) *)
PrintItems(l, i, indent) ==
    IF i > Len(l) THEN Wrote(<<>>)
    ELSE Then(print_tag(l[i], indent, TRUE, <<>>), PrintItems(l, i + 1, indent))

(* for tag_name, tag_val in tag.val_comp.items(): print_tag(tag_val, ...) *)
PrintMembers(d, i, indent) ==
    IF i > Len(d) THEN Wrote(<<>>)
    ELSE Then(print_tag(d[i].payload, indent, FALSE, d[i].name),
              PrintMembers(d, i + 1, indent))

(* the type and possibly the name of the tag *)
PrintHeading(tag_type_name, within_list, name) ==
    IF name # <<>> /\ ~within_list
    THEN Wrote(<< tag_type_name, "(\"", VStr(name), "\"): " >>)
    ELSE Wrote(<< tag_type_name, ": " >>)

(* the tag data payload *)
PrintPayload(tag, indent) ==
    IF tag.tag_kind \in IntKinds THEN Wrote(<< VInt(tag.val_int) >>)
    ELSE IF tag.tag_kind \in FloatKinds THEN Wrote(<< VFloat(tag.val_float) >>)
    ELSE IF tag.tag_kind = TAG_STRING THEN Wrote(<< "\"", VStr(tag.val_str), "\"" >>)
    ELSE IF tag.tag_kind = TAG_BYTE_ARRAY
    THEN Having(len(tag), LAMBDA n :
         IF n > 10 THEN Wrote(<< "[", n, " bytes...]" >>)
         ELSE Then(Wrote(<< "[ " >>), Then(PrintBytes(tag.val_list, 1), Wrote(<< "]" >>))))
    ELSE IF tag.tag_kind = TAG_LIST
    THEN Having(tag_kind_to_str(tag.list_item_kind), LAMBDA inner_type_name :
         Having(len(tag), LAMBDA n :
         Then(Wrote(<< n, " entries of type ", inner_type_name, " {", "\n" >>),
         Then(PrintItems(tag.val_list, 1, indent + 1),
              Wrote(Indent(indent) \o << "}" >>)))))
    ELSE IF tag.tag_kind = TAG_COMPOUND
    THEN Having(len(tag), LAMBDA n :
         Then(Wrote(<< n, " entries {", "\n" >>),
         Then(PrintMembers(tag.val_comp, 1, indent + 1),
              Wrote(Indent(indent) \o << "}" >>))))
    ELSE IF tag.tag_kind \in { TAG_INT_ARRAY, TAG_LONG_ARRAY }
    THEN Having(len(tag), LAMBDA n :
         IF n > 10
         THEN Wrote(<< "[", n, IF tag.tag_kind = TAG_INT_ARRAY THEN " ints...]"
                                ELSE " longs...]" >>)
         ELSE Wrote(<< VList(tag.val_list) >>))
    ELSE [err |-> Exc("TypeError", "cannot print tag kind"), out |-> <<>>]

(* print_tag of a TagPayload, with indent_str = '  ' *)
print_tag(tag, indent, within_list, name) ==
    IF tag.tag_kind = TAG_END THEN Wrote(Indent(indent - 1) \o << "}" >>)
    ELSE Then(Wrote(Indent(indent)),
         Then(Having(tag_kind_to_str(tag.tag_kind), LAMBDA tag_type_name :
                     PrintHeading(tag_type_name, within_list, name)),
         Then(PrintPayload(tag, indent), Wrote(<< "\n" >>))))

(* print_tag of a NamedTag: the payload is printed with the tag's name *)
print_named_tag(tag) == print_tag(tag.payload, 0, FALSE, tag.name)

----------------------------------------------------------------------------
(* The create-write-read script of tests/crw_test.py, generalised: it builds *)
(* a tag with the constructors, writes it as a named tag to a fresh file,    *)
(* and reads the file back; between writing and reading the file may be cut  *)
(* short or have one byte replaced.                                           *)

VARIABLES
    pc,      \* where the script is: "create", "written", "read", "draft", ...
    tag,     \* the payload built last
    call,    \* the operation called last, with its arguments
    err,     \* the exception that call raised, NoErr if it returned
    root,    \* the named tag handed to write_to_file
    file,    \* the bytes of the file
    pos,     \* the cursor of the open file
    edit,    \* what was done to the file since it was written
    got,     \* the named tag read_from_file returned
    draft,   \* the object built last with the classes of nbt/full.py
    ret,     \* what the call made last returned, when the script keeps it nowhere else
    mapping, \* the dict given to TagCompound last, while the script holds it
    reader   \* the calls of a read_from_file in progress, and what returned last

vars == << pc, tag, call, err, root, file, pos, edit, got, draft, ret, mapping, reader >>

(* at most this many items in a list or array argument *)
MaxItems == 2
(* a tag whose written payload is longer is not put into another container *)
MaxPayload == 7
(* a file longer than this is not tampered with *)
MaxDoc == 15

S_empty == <<>>
S_a == << 97 >>
S_n == << 110 >>
S_hi == << 104, 105 >>
S_root == << 114, 111, 111, 116 >>
S_e_acute == << 233 >>
S_cafe == << 99, 97, 102, 233 >>

(* the integers at and just beyond the signed range of size bytes, and the   *)
(* first one that takes more than size bytes of magnitude                     *)
MaxOf(size) == [neg |-> FALSE, mag |-> [i \in 1..size |-> IF i = 1 THEN 127 ELSE 255]]
MinOf(size) == [neg |-> TRUE, mag |-> MinMag(size)]
AboveMax(size) == [neg |-> FALSE, mag |-> MinMag(size)]
BelowMin(size) == [neg |-> TRUE, mag |-> [MinMag(size) EXCEPT ![size] = @ + 1]]
TooWide(size) == [neg |-> FALSE, mag |-> << 1 >> \o Zeros(size)]

IntArgs(k) ==
    LET size == TAG_NUMERIC_BYTE_COUNT(k) IN
    { MaxOf(size), MinOf(size), AboveMax(size), BelowMin(size), TooWide(size) }
        \cup (IF k = TAG_INT THEN { PyInt(42) } ELSE {})
        \cup (IF k = TAG_LONG THEN { PyInt(-2) } ELSE {})

(* 1.0, -2.5 and 0.1 as binary64 *)
F_one == << 63, 240, 0, 0, 0, 0, 0, 0 >>
F_minus2_5 == << 192, 4, 0, 0, 0, 0, 0, 0 >>
F_tenth == << 63, 185, 153, 153, 153, 153, 153, 154 >>

LeafArgs(k) ==
    IF k \in IntKinds THEN { VInt(x) : x \in IntArgs(k) }
    ELSE IF k = TAG_FLOAT THEN { VFloat(F_one), VFloat(F_minus2_5) }
    ELSE IF k = TAG_DOUBLE THEN { VFloat(F_tenth) }
    ELSE IF k = TAG_STRING THEN { VStr(S_hi), VStr(S_cafe), VInt(PyInt(42)) }
    ELSE { PyNone }

LeafKinds == { TAG_END } \cup IntKinds \cup FloatKinds \cup { TAG_STRING }

Names == { S_a, S_e_acute }
RootNames == { S_root, S_e_acute }

(* the fixed second item or member used beside the tag built last *)
OtherItem == TagString(VStr(S_hi)).val
OtherMember == TagInt(VInt(PyInt(42))).val

Copies(x, n) == [i \in 1..n |-> x]

(* the list arguments tried: copies of the tag, and the tag beside a string *)
ItemLists(t) ==
    { Copies(t, n) : n \in 0..MaxItems } \cup { << t, OtherItem >>, << OtherItem, t >> }

(* the dict arguments tried *)
Mappings(t) ==
    { <<>> } \cup { << [name |-> n, payload |-> t] >> : n \in Names }
    \cup { << [name |-> S_a, payload |-> t], [name |-> S_n, payload |-> OtherMember] >> }

(* the declared item kinds tried for a list of the tag t *)
ItemKinds(t) == { t.tag_kind, TAG_END, TAG_INT, 13 }

Fits(w) == w.err = NoErr /\ Len(w.out) <= MaxPayload
Small(t) == Fits(write_to_file(t))

NoCall == [op |-> "none", kind |-> TAG_END, value |-> PyNone, list_item_kind |-> TAG_END]
Called(op, k, v, ik) == [op |-> op, kind |-> k, value |-> v, list_item_kind |-> ik]
NothingRead == [err |-> NoErr, val |-> NamedTag(S_empty, PyNone), pos |-> 0]

(* no read_from_file is in progress *)
NotReading == [stack |-> <<>>, last |-> TAG_END]

Init ==
    /\ pc = "create"
    /\ tag = TagEnd.val
    /\ call = NoCall
    /\ err = NoErr
    /\ root = NamedTag(S_empty, PyNone)
    /\ file = <<>>
    /\ pos = 0
    /\ edit = "none"
    /\ got = NothingRead
    /\ draft = nbt_full_TagEnd
    /\ ret = PyNone
    /\ mapping = PyNone
    /\ reader = NotReading

(* tag = TagPayload(k, v, ik); the assignment does not happen if it raises *)
Assigned(r) == err' = r.err /\ tag' = IF r.err = NoErr THEN r.val ELSE tag

(* m = {...}; tag = TagCompound(m): self.val_comp = tag_value makes the dict  *)
(* of the compound the very dict the script holds, until the script builds    *)
(* its next tag and lets go of m                                              *)
Held(r, k, v) ==
    mapping' = IF r.err # NoErr THEN mapping
               ELSE IF k = TAG_COMPOUND /\ v.t = "dict" THEN v
               ELSE PyNone

Construct(k, v, ik) ==
    /\ pc = "create"
    /\ call' = Called("TagPayload", k, v, ik)
    /\ Assigned(TagPayload(k, v, ik))
    /\ Held(TagPayload(k, v, ik), k, v)
    /\ UNCHANGED << reader, pc, root, file, pos, edit, got, draft, ret >>

(* TagEnd(), TagByte(x), ..., TagString(s) *)
MakeLeaf == \E k \in LeafKinds : \E v \in LeafArgs(k) : Construct(k, v, TAG_END)

(* TagList(item_type, [...]) *)
MakeList ==
    /\ Small(tag)
    /\ \E ik \in ItemKinds(tag) : \E l \in ItemLists(tag) :
          Construct(TAG_LIST, VList(l), ik)

(* TagByteArray([...]), TagIntArray([...]), TagLongArray([...]) *)
MakeArray ==
    /\ tag.tag_kind \in IntKinds
    /\ \E k \in ArrayKinds : \E l \in ItemLists(tag) : Construct(k, VList(l), TAG_END)

(* TagCompound({...}) *)
MakeCompound ==
    /\ Small(tag)
    /\ \E m \in Mappings(tag) : Construct(TAG_COMPOUND, VDict(m), TAG_END)

(* the indexes and names tried, and the values assigned, one of each kind *)
Indexes == { VInt(PyInt(0)), VInt(PyInt(-1)), VInt(PyInt(MaxItems)), VStr(S_a), VStr(S_n) }
SetKinds == { TAG_END, TAG_BYTE, TAG_INT, TAG_LONG, TAG_STRING }
SetValue(k) ==
    IF k = TAG_END THEN TagEnd.val
    ELSE IF k = TAG_STRING THEN TagString(VStr(S_hi)).val
    ELSE TagPayload(k, VInt(PyInt(42)), TAG_END).val

VTag(x) == [t |-> "tag", v |-> x]

Got(r) == err' = r.err /\ ret' = IF r.err = NoErr THEN VTag(r.val) ELSE PyNone

(* tag[index] *)
GetItem ==
    /\ pc = "create"
    /\ \E index \in Indexes :
          /\ call' = Called("__getitem__", TAG_END, index, TAG_END)
          /\ Got(getitem(tag, index))
    /\ pc' = "got item"
    /\ UNCHANGED << reader, tag, root, file, pos, edit, got, draft, mapping >>

(* the dict the script holds is the compound's val_comp *)
Shared(t) == mapping' = IF mapping.t = "dict" THEN VDict(t.val_comp) ELSE mapping

Put(r) == err' = r.err /\ tag' = r.val /\ Shared(r.val)

(* tag[index] = value *)
SetItem ==
    /\ pc = "create"
    /\ \E index \in Indexes : \E k \in SetKinds :
          /\ call' = Called("__setitem__", k, index, TAG_END)
          /\ Put(setitem(tag, index, SetValue(k)))
    /\ pc' = "assigned"
    /\ UNCHANGED << reader, root, file, pos, edit, got, draft, ret >>

(* the object self where it is stored as a value again: trees are values     *)
(* here, so the reference back to the container is a payload of its kind     *)
(* marked with the field ref                                                 *)
Itself(self) == Fresh(self.tag_kind, self.list_item_kind) @@ [ref |-> "self"]

(* tag[index] = tag *)
SetItemItself ==
    /\ pc = "create" /\ tag.tag_kind \in { TAG_LIST, TAG_COMPOUND }
    /\ \E index \in { VInt(PyInt(0)), VStr(S_a) } :
          /\ call' = Called("__setitem__ itself", tag.tag_kind, index, TAG_END)
          /\ Put(setitem(tag, index, Itself(tag)))
    /\ pc' = "cyclic"
    /\ UNCHANGED << reader, root, file, pos, edit, got, draft, ret >>

(* m[name] = value and del m[name] on the dict m the script holds, which is   *)
(* the dict of the compound too                                               *)
DictDel(d, key) == SelectSeq(d, LAMBDA e : e.name # key)

Updated(d) == mapping' = VDict(d) /\ tag' = [tag EXCEPT !.val_comp = d]

UpdateMapping ==
    /\ pc = "create" /\ mapping.t = "dict"
    /\ \E name \in { S_a, S_n } :
          \/ /\ call' = Called("dict.__setitem__", TAG_INT, VStr(name), TAG_END)
             /\ Updated(DictSet(mapping.v, name, SetValue(TAG_INT)))
          \/ /\ DictIndex(mapping.v, name) # 0
             /\ call' = Called("dict.__delitem__", TAG_END, VStr(name), TAG_END)
             /\ Updated(DictDel(mapping.v, name))
    /\ err' = NoErr
    /\ pc' = "assigned"
    /\ UNCHANGED << reader, root, file, pos, edit, got, draft, ret >>

Written(w) == file' = w.out /\ err' = w.err

(* The script for nbt/full.py: it builds an object with the classes and     *)
(* writes it as a named tag, buffered or stepped.                             *)

(* the objects tried as list items beside the object built last *)
DraftItems == { nbt_full_TagInt(PyInt(42)).val, nbt_full_TagString(S_hi) }
DraftLists(d) ==
    { <<>> } \cup { << x >> : x \in DraftItems \cup { d } }
             \cup { << x, y >> : x, y \in DraftItems \cup { d } }
DraftKinds == { TAG_INT, TAG_STRING, TAG_END, 13 }
DraftMappings(d) ==
    { <<>>, << [name |-> S_a, payload |-> d] >>,
      << [name |-> S_a, payload |-> d], [name |-> S_n, payload |-> nbt_full_TagInt(PyInt(42)).val] >> }

DraftStart == (pc = "create" /\ call = NoCall) \/ pc = "draft"
DraftSmall(d) == Fits(nbt_full_bytes(d))

Drafted(r) == err' = r.err /\ draft' = IF r.err = NoErr THEN r.val ELSE draft

(* TagEnd(), TagInt(x), TagString(s) *)
DraftLeaf ==
    /\ DraftStart
    /\ \/ /\ call' = Called("nbt.full.TagEnd", TAG_END, PyNone, TAG_END)
          /\ Drafted([err |-> NoErr, val |-> nbt_full_TagEnd])
       \/ \E x \in { PyInt(42), AboveMax(4), TooWide(4) } :
             /\ call' = Called("nbt.full.TagInt", TAG_INT, VInt(x), TAG_END)
             /\ Drafted(nbt_full_TagInt(x))
       \/ \E x \in { S_hi, S_e_acute } :
             /\ call' = Called("nbt.full.TagString", TAG_STRING, VStr(x), TAG_END)
             /\ Drafted([err |-> NoErr, val |-> nbt_full_TagString(x)])
    /\ pc' = "draft"
    /\ UNCHANGED << reader, tag, root, file, pos, edit, got, ret, mapping >>

(* TagList(item_kind, [...]) *)
DraftList ==
    /\ DraftStart /\ DraftSmall(draft)
    /\ \E ik \in DraftKinds : \E l \in DraftLists(draft) :
          /\ call' = Called("nbt.full.TagList", TAG_LIST, VList(l), ik)
          /\ Drafted(nbt_full_TagList(ik, l))
    /\ pc' = "draft"
    /\ UNCHANGED << reader, tag, root, file, pos, edit, got, ret, mapping >>

(* TagCompound({...}) *)
DraftCompound ==
    /\ DraftStart /\ DraftSmall(draft)
    /\ \E m \in DraftMappings(draft) :
          /\ call' = Called("nbt.full.TagCompound", TAG_COMPOUND, VDict(m), TAG_END)
          /\ Drafted([err |-> NoErr, val |-> nbt_full_TagCompound(m)])
    /\ pc' = "draft"
    /\ UNCHANGED << reader, tag, root, file, pos, edit, got, ret, mapping >>

(* draft[index] = item on a TagList *)
DraftSetItem ==
    /\ pc = "draft" /\ draft.kind = TAG_LIST
    /\ \E index \in { PyInt(0), PyInt(-1), PyInt(MaxItems) } : \E item \in DraftItems :
          /\ call' = Called("nbt.full.__setitem__", item.kind, VInt(index), TAG_END)
          /\ Drafted(nbt_full_setitem(draft, VInt(index), item))
    /\ pc' = "draft changed"
    /\ UNCHANGED << reader, tag, root, file, pos, edit, got, ret, mapping >>

(* draft.append(item) on a TagList *)
DraftAppend ==
    /\ pc = "draft" /\ draft.kind = TAG_LIST
    /\ \E item \in DraftItems :
          /\ call' = Called("nbt.full.append", item.kind, PyNone, TAG_END)
          /\ Drafted(nbt_full_append(draft, item))
    /\ pc' = "draft changed"
    /\ UNCHANGED << reader, tag, root, file, pos, edit, got, ret, mapping >>

(* NamedTag(name, draft).write_to_file(f) *)
DraftWrite ==
    /\ pc = "draft"
    /\ \E name \in Names :
          /\ call' = Called("nbt.full.write_to_file", draft.kind, VStr(name), TAG_END)
          /\ Written(nbt_full_NamedTag_write_to_file(nbt_full_NamedTag(name, draft)))
    /\ pc' = "drafted"
    /\ UNCHANGED << reader, tag, root, pos, edit, got, draft, ret, mapping >>

(* NamedTag(name, draft).write_to_file_stepped(f) *)
DraftWriteStepped ==
    /\ pc = "draft"
    /\ \E name \in Names :
          /\ call' = Called("nbt.full.write_to_file_stepped", draft.kind, VStr(name), TAG_END)
          /\ Written(nbt_full_NamedTag_write_to_file_stepped(nbt_full_NamedTag(name, draft)))
    /\ pc' = "drafted"
    /\ UNCHANGED << reader, tag, root, pos, edit, got, draft, ret, mapping >>

(* The script for nbt/nbt.py: it builds an object, a TagCompound also with  *)
(* append_before_end, encodes it with bytes(), once and again, and writes it *)
(* as a named tag, buffered or stepped.                                       *)

VBytes(x) == [t |-> "bytes", v |-> x]

(* the lists of NamedTags and the dicts tried: a list may hold a TagEnd      *)
NbtMembers(d) ==
    { <<>>, << nbt_nbt_NamedTag(S_a, d) >>,
      << nbt_nbt_NamedTag(S_a, d), nbt_nbt_NamedTag(S_n, nbt_nbt_TagInt(PyInt(42))) >>,
      << nbt_nbt_NamedTag(S_a, d), nbt_nbt_NamedTag(S_empty, nbt_nbt_TagEnd) >> }

NbtStart == (pc = "create" /\ call = NoCall) \/ pc = "nbt"
NbtSmall(d) == Fits(nbt_nbt_bytes(d)) /\ (d.kind = TAG_COMPOUND => Len(d.val.v) <= MaxItems + 1)

(* TagEnd(), TagInt(x), TagString(s) *)
NbtLeaf ==
    /\ NbtStart
    /\ \/ /\ call' = Called("nbt.nbt.TagEnd", TAG_END, PyNone, TAG_END)
          /\ draft' = nbt_nbt_TagEnd
       \/ \E x \in { PyInt(42), AboveMax(4) } :
             /\ call' = Called("nbt.nbt.TagInt", TAG_INT, VInt(x), TAG_END)
             /\ draft' = nbt_nbt_TagInt(x)
       \/ \E x \in { S_hi, S_e_acute } :
             /\ call' = Called("nbt.nbt.TagString", TAG_STRING, VStr(x), TAG_END)
             /\ draft' = nbt_nbt_TagString(x)
    /\ pc' = "nbt"
    /\ err' = NoErr
    /\ ret' = PyNone
    /\ UNCHANGED << reader, tag, root, file, pos, edit, got, mapping >>

(* TagCompound([...]) and TagCompound({...}) *)
NbtCompound ==
    /\ NbtStart /\ NbtSmall(draft)
    /\ \E m \in NbtMembers(draft) :
          /\ call' = Called("nbt.nbt.TagCompound", TAG_COMPOUND, VList(m), TAG_END)
          /\ draft' = nbt_nbt_TagCompound(m)
    /\ pc' = "nbt"
    /\ err' = NoErr
    /\ ret' = PyNone
    /\ UNCHANGED << reader, tag, root, file, pos, edit, got, mapping >>

(* draft.append_before_end(NamedTag(name, payload)) *)
NbtAppend ==
    /\ pc = "nbt" /\ draft.kind = TAG_COMPOUND /\ NbtSmall(draft)
    /\ \E name \in Names : \E p \in { nbt_nbt_TagInt(PyInt(42)), nbt_nbt_TagEnd } :
          /\ call' = Called("nbt.nbt.append_before_end", p.kind, VStr(name), TAG_END)
          /\ draft' = nbt_nbt_append_before_end(draft, nbt_nbt_NamedTag(name, p))
    /\ err' = NoErr
    /\ ret' = PyNone
    /\ UNCHANGED << reader, pc, tag, root, file, pos, edit, got, mapping >>

(* draft.ensure_end() *)
NbtEnsureEnd ==
    /\ pc = "nbt" /\ draft.kind = TAG_COMPOUND
    /\ call.op # "nbt.nbt.ensure_end"
    /\ call' = Called("nbt.nbt.ensure_end", TAG_COMPOUND, PyNone, TAG_END)
    /\ draft' = nbt_nbt_ensure_end(draft)
    /\ err' = NoErr
    /\ ret' = PyNone
    /\ UNCHANGED << reader, pc, tag, root, file, pos, edit, got, mapping >>

(* bytes(x) returns the bytes, or raises, and leaves x as r.self *)
EncodedTo(r) ==
    /\ err' = r.err
    /\ ret' = IF r.err = NoErr THEN VBytes(r.out) ELSE PyNone
    /\ draft' = r.self

(* bytes(draft) *)
NbtEncode ==
    /\ pc = "nbt"
    /\ call.op \notin { "nbt.nbt.bytes", "nbt.nbt.bytes again" }
    /\ call' = Called("nbt.nbt.bytes", draft.kind, PyNone, TAG_END)
    /\ EncodedTo(nbt_nbt_bytes(draft))
    /\ UNCHANGED << reader, pc, tag, root, file, pos, edit, got, mapping >>

(* bytes(draft) once more, right after bytes(draft) *)
NbtEncodeAgain ==
    /\ pc = "nbt"
    /\ call.op \in { "nbt.nbt.bytes", "nbt.nbt.bytes again" }
    /\ call' = Called("nbt.nbt.bytes again", draft.kind, PyNone, TAG_END)
    /\ EncodedTo(nbt_nbt_bytes(draft))
    /\ UNCHANGED << reader, pc, tag, root, file, pos, edit, got, mapping >>

(* f.write(...) of a call that leaves the named tag as r.self *)
WrittenFrom(r) == file' = r.out /\ err' = r.err /\ draft' = r.self.payload

(* NamedTag(name, draft).write_to_file(f) *)
NbtWrite ==
    /\ pc = "nbt"
    /\ \E name \in Names :
          /\ call' = Called("nbt.nbt.write_to_file", draft.kind, VStr(name), TAG_END)
          /\ WrittenFrom(nbt_nbt_NamedTag_write_to_file(nbt_nbt_NamedTag(name, draft)))
    /\ pc' = "nbt written"
    /\ ret' = PyNone
    /\ UNCHANGED << reader, tag, root, pos, edit, got, mapping >>

(* NamedTag(name, draft).write_to_file_stepped(f) *)
NbtWriteStepped ==
    /\ pc = "nbt"
    /\ \E name \in Names :
          /\ call' = Called("nbt.nbt.write_to_file_stepped", draft.kind, VStr(name), TAG_END)
          /\ WrittenFrom(nbt_nbt_NamedTag_write_to_file_stepped(nbt_nbt_NamedTag(name, draft)))
    /\ pc' = "nbt written"
    /\ ret' = PyNone
    /\ UNCHANGED << reader, tag, root, pos, edit, got, mapping >>

(* NamedTag.read_from_file(f) on the file the script of nbt/nbt.py wrote,     *)
(* opened again for reading                                                  *)
NbtRead ==
    /\ pc = "nbt written"
    /\ call' = Called("nbt.nbt.read_from_file", TAG_END, PyNone, TAG_END)
    /\ Got(nbt_nbt_NamedTag_read_from_file(file, 0))
    /\ pos' = nbt_nbt_NamedTag_read_from_file(file, 0).pos
    /\ pc' = "nbt read"
    /\ UNCHANGED << reader, tag, root, file, edit, got, draft, mapping >>

(* what f holds after x = NamedTag(); x.write_to_file(f) *)
DefaultWritten(r, w) ==
    /\ err' = IF r.err # NoErr THEN r.err ELSE w.err
    /\ file' = IF r.err # NoErr THEN <<>> ELSE w.out

(* NamedTag().write_to_file(f), with nbtformat/full.py and with nbt/full.py *)
DefaultNamed ==
    /\ pc = "create" /\ call = NoCall
    /\ \/ /\ call' = Called("NamedTag", TAG_END, PyNone, TAG_END)
          /\ root' = NamedTag(S_empty, PyNone)
          /\ DefaultWritten([err |-> NoErr],
                            NamedTag_write_to_file(NamedTag(S_empty, PyNone)))
          /\ ret' = PyNone
       \/ /\ call' = Called("nbt.full.NamedTag", TAG_END, PyNone, TAG_END)
          /\ DefaultWritten(nbt_full_NamedTag_init(S_empty, PyNone),
                            nbt_full_NamedTag_write_to_file(
                                nbt_full_NamedTag_init(S_empty, PyNone).val))
          /\ ret' = IF nbt_full_NamedTag_init(S_empty, PyNone).err = NoErr
                    THEN VTag(nbt_full_NamedTag_init(S_empty, PyNone).val) ELSE PyNone
          /\ root' = root
    /\ pc' = "default named"
    /\ UNCHANGED << reader, tag, pos, edit, got, draft, mapping >>

VText(x) == [t |-> "text", v |-> x]

Printed(r) == err' = r.err /\ ret' = VText(r.out)

(* print_tag(NamedTag(name, tag)) *)
PrintTag ==
    /\ pc = "create"
    /\ \E name \in { S_empty, S_a } :
          /\ call' = Called("print_tag", tag.tag_kind, VStr(name), TAG_END)
          /\ Printed(print_named_tag(NamedTag(name, tag)))
    /\ pc' = "printed"
    /\ UNCHANGED << reader, tag, root, file, pos, edit, got, draft, mapping >>

(* the same call once more *)
PrintTagAgain ==
    /\ pc = "printed"
    /\ call' = Called("print_tag again", tag.tag_kind, call.value, TAG_END)
    /\ Printed(print_named_tag(NamedTag(call.value.v, tag)))
    /\ pc' = "printed again"
    /\ UNCHANGED << reader, tag, root, file, pos, edit, got, draft, mapping >>

(* the integers given to tag_kind_to_str *)
KindArgs == (-(Len(TAG_NAMES) + 1))..(Len(TAG_NAMES) + 1)

VName(x) == [t |-> "name", v |-> x]

Named(r) == err' = r.err /\ ret' = IF r.err = NoErr THEN VName(r.val) ELSE PyNone

(* tag_kind_to_str(k), of nbtformat/full.py and of nbt/full.py *)
KindName ==
    /\ pc = "create" /\ call = NoCall
    /\ \E k \in KindArgs :
          \/ /\ call' = Called("tag_kind_to_str", k, PyNone, TAG_END)
             /\ Named(tag_kind_to_str(k))
          \/ /\ call' = Called("nbt.full.tag_kind_to_str", k, PyNone, TAG_END)
             /\ Named(nbt_full_tag_kind_to_str(k))
    /\ pc' = "named"
    /\ UNCHANGED << reader, tag, root, file, pos, edit, got, draft, mapping >>

(* NamedTag(name, tag).write_to_file(f) on a file opened "wb", then closed   *)
(* and opened again for reading                                               *)
Write ==
    /\ pc \in { "create", "assigned" }
    /\ \E name \in RootNames :
          /\ root' = NamedTag(name, tag)
          /\ Written(NamedTag_write_to_file(NamedTag(name, tag)))
    /\ call' = Called("write_to_file", TAG_END, PyNone, TAG_END)
    /\ pc' = "written"
    /\ pos' = 0
    /\ edit' = IF pc = "create" THEN "none" ELSE "kept"
    /\ UNCHANGED << reader, tag, got, draft, ret, mapping >>

(* root.write_to_file(f) once more, on another fresh file *)
WriteAgain ==
    /\ pc = "written" /\ edit \in { "none", "kept" }
    /\ Written(NamedTag_write_to_file(root))
    /\ call' = Called("write_to_file again", TAG_END, PyNone, TAG_END)
    /\ pc' = "written again"
    /\ UNCHANGED << reader, tag, root, pos, edit, got, draft, ret, mapping >>

(* the bytes tried after the end of what was written *)
Extras == { << 0 >>, << 255, 255 >> }

(* more bytes follow the named tag in the file *)
Extend ==
    /\ pc = "written" /\ edit = "none" /\ err = NoErr
    /\ Len(file) <= MaxDoc
    /\ \E x \in Extras : file' = file \o x
    /\ edit' = "extra"
    /\ UNCHANGED << reader, pc, tag, call, err, root, pos, got, draft, ret, mapping >>

(* the file loses its tail *)
Truncate ==
    /\ pc = "written" /\ edit = "none" /\ err = NoErr
    /\ Len(file) <= MaxDoc
    /\ \E n \in 0..(Len(file) - 1) : file' = SubSeq(file, 1, n)
    /\ edit' = "cut"
    /\ UNCHANGED << reader, pc, tag, call, err, root, pos, got, draft, ret, mapping >>

(* the values a replaced byte takes: 0xFF, a sign bit, and the kind 13 *)
PokeValues == { 255, 13 }

(* one byte of the file is replaced *)
Poke ==
    /\ pc = "written" /\ edit = "none" /\ err = NoErr
    /\ Len(file) <= MaxDoc
    /\ \E i \in 1..Len(file) : \E b \in PokeValues :
          /\ file[i] # b
          /\ file' = [file EXCEPT ![i] = b]
    /\ edit' = "poke"
    /\ UNCHANGED << reader, pc, tag, call, err, root, pos, got, draft, ret, mapping >>

(* a name byte 'n' of the file becomes 'a', the name of the member before *)
Rename ==
    /\ pc = "written" /\ edit = "none" /\ err = NoErr
    /\ \E i \in 1..Len(file) :
          /\ file[i] = S_n[1]
          /\ file' = [file EXCEPT ![i] = S_a[1]]
    /\ edit' = "renamed"
    /\ UNCHANGED << reader, pc, tag, call, err, root, pos, got, draft, ret, mapping >>

Returned(r) == got' = [r EXCEPT !.pos = pos] /\ err' = r.err /\ pos' = r.pos

(* NamedTag.read_from_file(f) *)
Read ==
    /\ pc \in { "written", "read" }
    /\ Returned(NamedTag_read_from_file(file, pos))
    /\ call' = Called("read_from_file", TAG_END, PyNone, TAG_END)
    /\ pc' = "read"
    /\ UNCHANGED << reader, tag, root, file, edit, draft, ret, mapping >>

Next ==
    \/ MakeLeaf
    \/ MakeList
    \/ MakeArray
    \/ MakeCompound
    \/ GetItem
    \/ SetItem
    \/ SetItemItself
    \/ UpdateMapping
    \/ DraftLeaf
    \/ DraftList
    \/ DraftCompound
    \/ DraftSetItem
    \/ DraftAppend
    \/ DraftWrite
    \/ DraftWriteStepped
    \/ NbtLeaf
    \/ NbtCompound
    \/ NbtAppend
    \/ NbtEnsureEnd
    \/ NbtEncode
    \/ NbtEncodeAgain
    \/ NbtWrite
    \/ NbtWriteStepped
    \/ NbtRead
    \/ KindName
    \/ PrintTag
    \/ PrintTagAgain
    \/ DefaultNamed
    \/ Write
    \/ WriteAgain
    \/ Extend
    \/ Truncate
    \/ Poke
    \/ Rename
    \/ Read

Spec == Init /\ [][Next]_vars

----------------------------------------------------------------------------
(* NamedTag.read_from_file call by call.  reader.stack holds the calls and   *)
(* loops of nbtformat/full.py that are in progress, the innermost last:      *)
(* "named" is a NamedTag._read_from_file about to run, "payload" a           *)
(* TagPayload.read_from_file about to run, "items" the comprehension of a    *)
(* LIST or an array, "members" the while loop of a COMPOUND.  reader.last is *)
(* the kind of the tag returned last.  The values read are not kept: only    *)
(* their kinds and counts decide what the reader does next.                  *)

(* the bytes tried after the head of a stream, and their greatest number *)
TailBytes == { 0, 1, 10 }
MaxTail == 5

(* how a stream starts: nothing, a COMPOUND, a LIST of BYTE, of END and of   *)
(* COMPOUND and a BYTE_ARRAY up to the last byte of the count, a LIST with a *)
(* negative count, and a named BYTE                                          *)
Heads ==
    { <<>>, << 10, 0, 0 >>, << 9, 0, 0, 1, 0, 0, 0 >>, << 9, 0, 0, 0, 0, 0, 0 >>,
      << 9, 0, 0, 10, 0, 0, 0 >>, << 7, 0, 0, 0, 0, 0 >>, << 9, 0, 0, 1, 255, 255, 255 >>,
      << 1, 0, 1, 97 >> }

Tails == UNION { [1..n -> TailBytes] : n \in 0..MaxTail }

Streams == { h \o t : h \in Heads, t \in Tails }

Frame(op, kind, item_type, count, done, at) ==
    [op |-> op, kind |-> kind, item_type |-> item_type, count |-> count,
     done |-> done, at |-> at]

NamedCall == Frame("named", TAG_END, TAG_END, 0, 0, 0)
PayloadCall(kind) == Frame("payload", kind, TAG_END, 0, 0, 0)

(* len(range(n)) *)
range_len_inclusive(n) == IF n < 0 THEN 0 ELSE n + 1

range_len(n) == IF n < 0 THEN 0 ELSE n

Reading == pc = "decoding" /\ reader.stack # <<>>
Top == reader.stack[Len(reader.stack)]
Others == SubSeq(reader.stack, 1, Len(reader.stack) - 1)

(* the call on top raises: the exception leaves every call in progress *)
Raises(e, at) ==
    /\ pc' = "raised"
    /\ err' = e
    /\ pos' = at
    /\ reader' = [reader EXCEPT !.stack = <<>>]

(* the reader goes on with the calls rest, the cursor at the given place *)
GoesOn(at, rest, last) ==
    /\ pc' = pc
    /\ err' = err
    /\ pos' = at
    /\ reader' = [stack |-> rest, last |-> last]

DecodeInit ==
    /\ pc = "decoding"
    /\ file \in Streams
    /\ pos = 0
    /\ err = NoErr
    /\ reader = [stack |-> << NamedCall >>, last |-> TAG_END]
    /\ tag = TagEnd.val
    /\ call = NoCall
    /\ root = NamedTag(S_empty, PyNone)
    /\ edit = "none"
    /\ got = NothingRead
    /\ draft = nbt_full_TagEnd
    /\ ret = PyNone
    /\ mapping = PyNone

(* what NamedTag._read_from_file does with the kind byte and the name, up to *)
(* the call that reads the payload                                           *)
NamedStep(kind, name) ==
    IF kind.err.type \in CaughtAtKindByte THEN GoesOn(kind.pos, Others, TAG_END)
    ELSE IF kind.err # NoErr THEN Raises(kind.err, kind.pos)
    ELSE IF AsNum(kind.val.val_int) \notin ALL_TAG_TYPES
    THEN Raises(Exc("ValueError", "encountered invalid tag type byte value"), kind.pos)
    ELSE IF AsNum(kind.val.val_int) = TAG_END THEN GoesOn(kind.pos, Others, TAG_END)
    ELSE IF name.err # NoErr THEN Raises(name.err, name.pos)
    ELSE GoesOn(name.pos, Append(Others, PayloadCall(AsNum(kind.val.val_int))),
                reader.last)

(* NamedTag._read_from_file: the kind byte and the name *)
DecodeNamed ==
    /\ Reading /\ Top.op = "named"
    /\ NamedStep(read_from_file(TAG_BYTE, file, pos),
                 read_from_file(TAG_STRING, file, read_from_file(TAG_BYTE, file, pos).pos))
    /\ UNCHANGED << tag, call, root, file, edit, got, draft, ret, mapping >>

LeafStep(r) ==
    IF r.err # NoErr THEN Raises(r.err, r.pos) ELSE GoesOn(r.pos, Others, Top.kind)

(* TagPayload.read_from_file of a kind that holds no tags, or of no kind *)
DecodeLeaf ==
    /\ Reading /\ Top.op = "payload"
    /\ Top.kind \notin ({ TAG_LIST, TAG_COMPOUND } \cup ArrayKinds)
    /\ LeafStep(read_from_file(Top.kind, file, pos))
    /\ UNCHANGED << tag, call, root, file, edit, got, draft, ret, mapping >>

(* the loop over range(item_count) is next *)
ItemsStep(item_type, at, item_count) ==
    IF item_count.err # NoErr THEN Raises(item_count.err, item_count.pos)
    ELSE GoesOn(item_count.pos,
                Append(Others, Frame("items", Top.kind, item_type,
                                     AsNum(item_count.val.val_int), 0, at)),
                reader.last)

ListStep(item_type) ==
    IF item_type.err # NoErr THEN Raises(item_type.err, item_type.pos)
    ELSE ItemsStep(AsNum(item_type.val.val_int), pos,
                   read_from_file(TAG_INT, file, item_type.pos))

(* TagPayload.read_from_file of a LIST: the item type and the count *)
DecodeList ==
    /\ Reading /\ Top.op = "payload" /\ Top.kind = TAG_LIST
    /\ ListStep(read_from_file(TAG_BYTE, file, pos))
    /\ UNCHANGED << tag, call, root, file, edit, got, draft, ret, mapping >>

(* TagPayload.read_from_file of an array: the count *)
DecodeArray ==
    /\ Reading /\ Top.op = "payload" /\ Top.kind \in ArrayKinds
    /\ ItemsStep(tag_array_type_to_item_type(Top.kind), pos,
                 read_from_file(TAG_INT, file, pos))
    /\ UNCHANGED << tag, call, root, file, edit, got, draft, ret, mapping >>

(* one more item of the comprehension *)
DecodeItem ==
    /\ Reading /\ Top.op = "items" /\ Top.done < range_len(Top.count)
    /\ GoesOn(pos, Others \o << [Top EXCEPT !.done = @ + 1], PayloadCall(Top.item_type) >>,
              reader.last)
    /\ UNCHANGED << tag, call, root, file, edit, got, draft, ret, mapping >>

(* the comprehension is over: TagPayload(k, [...], list_item_kind=item_type), *)
(* whose items all have the kind they were read as                           *)
ItemsOver(c) ==
    IF c.err # NoErr THEN Raises(c.err, pos) ELSE GoesOn(pos, Others, Top.kind)

DecodeItemsOver ==
    /\ Reading /\ Top.op = "items" /\ Top.done >= range_len(Top.count)
    /\ ItemsOver(TagPayload(Top.kind, VList(<<>>), Top.item_type))
    /\ UNCHANGED << tag, call, root, file, edit, got, draft, ret, mapping >>

(* TagPayload.read_from_file of a COMPOUND: the first NamedTag.read_from_file *)
DecodeCompound ==
    /\ Reading /\ Top.op = "payload" /\ Top.kind = TAG_COMPOUND
    /\ GoesOn(pos, Others \o << Frame("members", TAG_COMPOUND, TAG_END, 0, 0, pos),
                                NamedCall >>, reader.last)
    /\ UNCHANGED << tag, call, root, file, edit, got, draft, ret, mapping >>

(* the while loop of a COMPOUND, when a named tag was read: it ends with an  *)
(* END, and stores the member and reads the next named tag otherwise         *)
DecodeMember ==
    /\ Reading /\ Top.op = "members"
    /\ IF reader.last = TAG_END THEN GoesOn(pos, Others, TAG_COMPOUND)
       ELSE GoesOn(pos, Others \o << [Top EXCEPT !.done = @ + 1, !.at = pos], NamedCall >>,
                   reader.last)
    /\ UNCHANGED << tag, call, root, file, edit, got, draft, ret, mapping >>

(* the outermost NamedTag.read_from_file returns *)
DecodeReturn ==
    /\ pc = "decoding" /\ reader.stack = <<>>
    /\ pc' = "returned"
    /\ UNCHANGED << tag, call, err, root, file, pos, edit, got, draft, ret, mapping, reader >>

DecodeNext ==
    \/ DecodeNamed
    \/ DecodeLeaf
    \/ DecodeList
    \/ DecodeArray
    \/ DecodeItem
    \/ DecodeItemsOver
    \/ DecodeCompound
    \/ DecodeMember
    \/ DecodeReturn

(* the reader is one thread of control: it takes its next step *)
DecodeSpec == DecodeInit /\ [][DecodeNext]_vars /\ WF_vars(DecodeNext)

----------------------------------------------------------------------------
(* Notions the properties below are stated with *)

(* x lies in the signed range of size bytes, -2^(8 size - 1) .. 2^(8 size - 1) - 1 *)
InSignedRange(x, size) ==
    IF x.neg THEN bit_length(x) < 8 * size \/ x.mag = MinMag(size)
    ELSE bit_length(x) < 8 * size

(* the data model's invariants: integers within their kind's range, lists    *)
(* of one valid kind, no END stored in a compound                             *)
RECURSIVE ValidTree(_)
ValidTree(t) ==
    /\ t.tag_kind \in ALL_TAG_TYPES
    /\ t.tag_kind \in IntKinds =>
          InSignedRange(t.val_int, TAG_NUMERIC_BYTE_COUNT(t.tag_kind))
    /\ t.tag_kind = TAG_LIST => t.list_item_kind \in ALL_TAG_TYPES
    /\ \A i \in 1..Len(t.val_list) :
          t.val_list[i].tag_kind = item_kind(t) /\ ValidTree(t.val_list[i])
    /\ \A i \in 1..Len(t.val_comp) :
          t.val_comp[i].payload.tag_kind # TAG_END /\ ValidTree(t.val_comp[i].payload)

(* a named tag as the data model has it: END is never named *)
ValidRoot(nt) == nt.payload.tag_kind # TAG_END /\ ValidTree(nt.payload)

(* the script has written root and read it back from the start of the file,  *)
(* which nothing touched in between                                           *)
ReadBack == pc = "read" /\ edit = "none" /\ got.pos = 0

(* the offset of the payload in the file written for root *)
PayloadStart == 3 + Len(Utf8Bytes(root.name))

(* C1: round trip: reading back the bytes written for a valid tree returns   *)
(* a tree equal to it                                                         *)
C1_RoundTrip ==
    (ReadBack /\ ValidRoot(root)) => (err = NoErr /\ got.val = root)

ExampleRoot ==
    NamedTag(S_root,
             TagCompound(VDict(<< [name |-> S_a, payload |-> TagString(VStr(S_hi)).val],
                                  [name |-> S_n, payload |-> TagInt(VInt(PyInt(42))).val] >>)).val)

ExampleBytes ==
    << 10, 0, 4, 114, 111, 111, 116, 8, 0, 1, 97, 0, 2, 104, 105,
       3, 0, 1, 110, 0, 0, 0, 42, 0 >>

(* C2: NamedTag("root", {"a": String "hi", "n": Int 42}) is written as        *)
(* exactly the bytes 0A 00 04 root 08 00 01 a 00 02 hi 03 00 01 n 0000002A 00, *)
(* and reading those bytes returns an equal tree                               *)
C2_EndToEnd ==
    /\ (pc = "written" /\ edit = "none" /\ root = ExampleRoot) =>
          (err = NoErr /\ file = ExampleBytes)
    /\ (pc = "read" /\ got.pos = 0 /\ file = ExampleBytes) =>
          (err = NoErr /\ got.val = ExampleRoot /\ pos = Len(ExampleBytes))

C2_Witness == ReadBack /\ root = ExampleRoot /\ file = ExampleBytes /\ got.val = ExampleRoot

(* TagByte(x), ..., TagLong(x) was called last *)
IntegerBuilt == call.op = "TagPayload" /\ call.kind \in IntKinds /\ call.value.t = "int"

(* C3: constructing an integer-kind tag succeeds exactly when the value lies *)
(* in the kind's signed range, so that TagByte(128) and TagByte(-129) fail   *)
C3_IntegerBounds ==
    IntegerBuilt =>
        (err = NoErr <=> InSignedRange(call.value.v, TAG_NUMERIC_BYTE_COUNT(call.kind)))

(* the 16-bit length written before the n bytes that start at offset at + 2 *)
PrefixCounts(at, bytes) ==
    /\ Len(file) >= at + 2 + Len(bytes)
    /\ BytesNat(SubSeq(file, at + 1, at + 2)) = Len(bytes)
    /\ SubSeq(file, at + 3, at + 2 + Len(bytes)) = bytes

(* C4: the length prefix written before a tag name and before a STRING       *)
(* payload is the number of UTF-8 bytes written after it                      *)
C4_Utf8LengthFraming ==
    (pc = "written" /\ edit = "none" /\ err = NoErr /\ root.payload.tag_kind # TAG_END) =>
        /\ PrefixCounts(1, Utf8Bytes(root.name))
        /\ root.payload.tag_kind = TAG_STRING =>
              PrefixCounts(PayloadStart, Utf8Bytes(root.payload.val_str))

(* the items whose kind is not the declared one *)
Offending(declared, kinds) == { i \in 1..Len(kinds) : kinds[i] # declared }

FailsAtFirst(declared, kinds) ==
    Offending(declared, kinds) # {} =>
        (err # NoErr /\ err.index = Least(Offending(declared, kinds)) - 1)

(* C5: constructing a LIST one of whose elements is not of the declared kind *)
(* fails with an error that identifies the index of the first such element   *)
C5_ListHomogeneity ==
    /\ (call.op = "TagPayload" /\ call.kind = TAG_LIST) =>
          FailsAtFirst(call.list_item_kind,
                       [i \in 1..Len(call.value.v) |-> call.value.v[i].tag_kind])
    /\ call.op = "nbt.full.TagList" =>
          FailsAtFirst(call.list_item_kind,
                       [i \in 1..Len(call.value.v) |-> call.value.v[i].kind])

(* the bytes write_to_file produced for root, before anything touched them *)
Original == NamedTag_write_to_file(root).out

IsRoot(r) == r.err = NoErr /\ r.val = root

(* root is a valid tree and the bytes written for it read back as root *)
SoundOriginal == ValidRoot(root) /\ IsRoot(NamedTag_read_from_file(Original, 0))

(* the END bytes that close root's payload and the compounds nested last in it *)
RECURSIVE TrailingEnds(_)
TrailingEnds(t) ==
    IF t.tag_kind # TAG_COMPOUND THEN 0
    ELSE IF t.val_comp = <<>> THEN 1
    ELSE 1 + TrailingEnds(t.val_comp[Len(t.val_comp)].payload)

(* the file is the original without some of its trailing END bytes *)
TrailingEndsOmitted ==
    /\ edit = "cut" /\ SoundOriginal
    /\ Len(Original) - Len(file) <= TrailingEnds(root.payload)

(* C6: a read that finds the stream exhausted where a kind byte is due       *)
(* returns the END tag with the empty name, and a document without its       *)
(* trailing END bytes reads as the fully terminated one                       *)
C6_EndOfStream ==
    /\ (pc = "read" /\ got.pos = Len(file)) =>
          (err = NoErr /\ got.val = NamedTag(S_empty, TagEnd.val))
    /\ (pc = "read" /\ got.pos = 0 /\ TrailingEndsOmitted) =>
          (err = NoErr /\ got.val = root)

RECURSIVE HasCompound(_)
HasCompound(t) ==
    \/ t.tag_kind = TAG_COMPOUND
    \/ \E i \in 1..Len(t.val_list) : HasCompound(t.val_list[i])

(* the file ends inside root's only value: not before its kind byte, and     *)
(* there is no compound in it whose loop would read another kind byte         *)
CutInsideValue ==
    /\ edit = "cut" /\ SoundOriginal
    /\ ~HasCompound(root.payload)
    /\ Len(file) > 0

(* C7: reading a stream that ends before all the bytes declared for a value  *)
(* are there fails and returns no tree                                        *)
C7_Truncation ==
    (pc = "read" /\ got.pos = 0 /\ CutInsideValue) => err # NoErr

(* the byte at offset at was replaced, by the value b *)
PokedAt(at, b) ==
    /\ edit = "poke" /\ SoundOriginal
    /\ Len(file) > at
    /\ file[at + 1] = b /\ Original[at + 1] # b

(* the size of the length prefix of a payload of kind k *)
PrefixSize(k) == IF k = TAG_STRING THEN 2 ELSE 4

(* the length prefix of root's STRING or array payload was made negative *)
NegativeLength ==
    /\ root.payload.tag_kind \in { TAG_STRING } \cup ArrayKinds
    /\ PokedAt(PayloadStart, 255)

(* C8: reading a STRING or an array whose length prefix is negative fails,   *)
(* with nothing read after the prefix                                         *)
C8_NegativeLength ==
    (pc = "read" /\ got.pos = 0 /\ NegativeLength) =>
        (err # NoErr /\ pos <= PayloadStart + PrefixSize(root.payload.tag_kind))

(* root's kind byte, or the element-kind byte of root's LIST payload, was    *)
(* replaced by a byte that is no kind                                         *)
InvalidKindByte ==
    \E b \in PokeValues :
        /\ nbt_int_from_bytes(<< b >>, 1).val \notin { PyInt(k) : k \in ALL_TAG_TYPES }
        /\ \/ PokedAt(0, b)
           \/ root.payload.tag_kind = TAG_LIST /\ PokedAt(PayloadStart, b)

(* C9: reading fails whenever a kind byte in the stream is not in 0..12, be  *)
(* it a named tag's kind or a list's element kind, whatever the list's length *)
C9_KindValidity ==
    (pc = "read" /\ got.pos = 0 /\ InvalidKindByte) => err # NoErr

RECURSIVE MembersEncoded(_)
MembersEncoded(members) ==
    IF members = <<>> THEN <<>>
    ELSE NamedTag_write_to_file(Head(members)).out \o MembersEncoded(Tail(members))

(* C10: the payload written for a COMPOUND is its members' named-tag         *)
(* encodings in stored order followed by exactly one 0x00                     *)
C10_CompoundTermination ==
    (pc = "written" /\ edit = "none" /\ err = NoErr /\ root.payload.tag_kind = TAG_COMPOUND) =>
        SubSeq(file, PayloadStart + 1, Len(file)) =
            MembersEncoded(root.payload.val_comp) \o << 0 >>

KindNamed == call.op \in { "tag_kind_to_str", "nbt.full.tag_kind_to_str" }

(* C20: tag_kind_to_str(k) returns the name of kind k for k in 0..12 and     *)
(* fails for every other integer k, the negative ones included                *)
C20_KindNaming ==
    KindNamed =>
        IF call.kind \in 0..12
        THEN err = NoErr /\ ret = VName(TAG_NAMES[call.kind + 1])
        ELSE err # NoErr

(* byte i, counted from the least significant one, of x mod 2^(8w), w > i *)
RECURSIVE TwosByte(_, _)
TwosByte(x, i) == IF i = 0 THEN x % 256 ELSE TwosByte(x \div 256, i - 1)

(* x mod 2^(8w) in big-endian order, for an x of at most 31 bits *)
TwosComplement(x, w) == [i \in 1..w |-> TwosByte(x, w - i)]

(* the integer written, a stored value that is in its kind's range *)
IntegerWritten ==
    /\ pc = "written" /\ edit = "none" /\ err = NoErr
    /\ root.payload.tag_kind \in IntKinds

(* the integer read and the bytes it was read from, after the name *)
IntegerRead ==
    /\ pc = "read" /\ got.pos = 0 /\ err = NoErr
    /\ got.val.payload.tag_kind \in IntKinds

WidthRead == TAG_NUMERIC_BYTE_COUNT(got.val.payload.tag_kind)
BytesRead == SubSeq(file, pos - WidthRead + 1, pos)

EncodesAs(x, w, bytes) ==
    /\ Len(bytes) = w
    /\ InSignedRange(x, w)
    /\ bit_length(x) <= 31 => bytes = TwosComplement(AsNum(x), w)
    /\ nbt_int_to_bytes(x, w).bytes = bytes
    /\ nbt_int_from_bytes(bytes, w) = [err |-> NoErr, val |-> x]

(* C14: an integer of width w in its signed range is written as the w bytes  *)
(* of x mod 2^(8w), big-endian; w bytes are read as the signed value they     *)
(* stand for; reading what was written returns x                              *)
C14_TwosComplement ==
    /\ IntegerWritten =>
          EncodesAs(root.payload.val_int, TAG_NUMERIC_BYTE_COUNT(root.payload.tag_kind),
                    SubSeq(file, PayloadStart + 1, Len(file)))
    /\ IntegerRead => EncodesAs(got.val.payload.val_int, WidthRead, BytesRead)

C14_Witness ==
    /\ IntegerRead /\ edit = "poke"
    /\ got.val.payload.val_int.neg
    /\ got.val.payload.val_int # root.payload.val_int

(* the named tag of nbt/full.py that was written *)
DraftRoot == nbt_full_NamedTag(call.value.v, draft)

(* the named tag the script of nbt/nbt.py wrote *)
NbtRoot == nbt_nbt_NamedTag(call.value.v, draft)

(* C13: write_to_file_stepped writes the bytes that write_to_file writes,    *)
(* bytes(T), for every named tag T that can be written                        *)
C13_SteppedAgrees ==
    /\ (call.op = "nbt.full.write_to_file_stepped" /\ nbt_full_NamedTag_bytes(DraftRoot).err = NoErr) =>
            (err = NoErr /\ file = nbt_full_NamedTag_bytes(DraftRoot).out)
    /\ (call.op = "nbt.nbt.write_to_file_stepped" /\ nbt_nbt_NamedTag_bytes(NbtRoot).err = NoErr) =>
            (err = NoErr /\ file = nbt_nbt_NamedTag_bytes(NbtRoot).out)


(* the calls that encode: bytes(x) of nbt/nbt.py, write_to_file of            *)
(* nbtformat/full.py, and each of them made once more right after             *)
EncodesDraft == call'.op \in { "nbt.nbt.bytes", "nbt.nbt.bytes again" }
EncodesTag == call'.op \in { "write_to_file", "write_to_file again" }

(* C11: an encoding call leaves the tree it encodes as it was, and the same   *)
(* call made again right after it gives the same bytes, or the same error     *)
C11_EncodePure ==
    [][ /\ EncodesDraft => draft' = draft
        /\ call'.op = "nbt.nbt.bytes again" => (ret' = ret /\ err' = err)
        /\ EncodesTag => tag' = tag
        /\ call'.op = "write_to_file again" => (file' = file /\ err' = err /\ root' = root)
      ]_vars

(* a TagCompound of nbt/nbt.py that holds another TagCompound beside a       *)
(* second member was encoded twice                                            *)
C11_Witness ==
    /\ call.op = "nbt.nbt.bytes again" /\ err = NoErr
    /\ draft.kind = TAG_COMPOUND /\ Len(draft.val.v) >= 3
    /\ draft.val.v[2].payload.kind # TAG_END
    /\ \E i \in 1..Len(draft.val.v) : draft.val.v[i].payload.kind = TAG_COMPOUND

(* the wire unit of a named tag: the kind byte alone for an END payload, or   *)
(* the kind byte, the name encoded as a STRING payload, and the payload       *)
WireUnit(kind, name, payload) ==
    IF kind = TAG_END THEN << TAG_END >> ELSE << kind >> \o name \o payload

(* C12: a named tag is written as its kind byte, its name as a STRING payload *)
(* and its payload, in that order, and as the single byte 0 when its payload  *)
(* is END, whatever its name                                                  *)
C12_NamedTagWire ==
    /\ (pc = "written" /\ edit = "none" /\ err = NoErr) =>
          file = WireUnit(root.payload.tag_kind,
                          write_to_file(TagString(VStr(root.name)).val).out,
                          write_to_file(root.payload).out)
    /\ (call.op = "nbt.full.write_to_file" /\ err = NoErr) =>
          file = WireUnit(draft.kind,
                          nbt_full_bytes(nbt_full_TagString(call.value.v)).out,
                          nbt_full_bytes(draft).out)

(* a compound with a member was written under a name *)
C12_Witness ==
    /\ pc = "written" /\ edit = "none" /\ err = NoErr
    /\ root.name # <<>>
    /\ root.payload.tag_kind = TAG_COMPOUND /\ Len(root.payload.val_comp) > 0
    /\ Len(file) > 4 + Len(root.name)

(* a named END tag was written: its name is not in the file *)
NamedEndWritten ==
    /\ pc = "written" /\ edit = "none" /\ err = NoErr
    /\ root.name # <<>> /\ root.payload.tag_kind = TAG_END /\ file = << 0 >>

(* the call made last is tag[index] or tag[index] = value; an assignment that *)
(* raises leaves tag as it was, one that returns keeps its kind and length    *)
Gets == call.op = "__getitem__"
Sets == call.op = "__setitem__"
IndexGiven == AsNum(call.value.v)
SequenceKinds == { TAG_LIST } \cup ArrayKinds

(* C16: LIST and the three arrays take an integer index, to get and to set,   *)
(* and raise IndexError beyond their length; COMPOUND takes a name, and       *)
(* raises KeyError on the get of a missing one; every other kind raises the   *)
(* not-indexable AttributeError                                               *)
C16_IndexingByKind ==
    (Gets \/ Sets) =>
        /\ (/\ tag.tag_kind \in SequenceKinds /\ call.value.t = "int"
            /\ Sets => call.kind = item_kind(tag)
            /\ IndexGiven >= Len(tag.val_list)) => err.type = "IndexError"
        /\ (/\ tag.tag_kind \in SequenceKinds /\ call.value.t = "int"
            /\ Sets => call.kind = item_kind(tag)
            /\ IndexGiven >= 0 /\ IndexGiven < Len(tag.val_list)) =>
               /\ err = NoErr
               /\ Gets => ret = VTag(tag.val_list[IndexGiven + 1])
               /\ Sets => tag.val_list[IndexGiven + 1] = SetValue(call.kind)
        /\ (tag.tag_kind = TAG_COMPOUND /\ call.value.t = "str") =>
               IF DictIndex(tag.val_comp, call.value.v) = 0
               THEN Gets /\ err.type = "KeyError"
               ELSE /\ err = NoErr
                    /\ Gets => ret = VTag(tag.val_comp[DictIndex(tag.val_comp, call.value.v)].payload)
                    /\ Sets => tag.val_comp[DictIndex(tag.val_comp, call.value.v)].payload = SetValue(call.kind)
        /\ tag.tag_kind \notin SequenceKinds \cup { TAG_COMPOUND } => err.type = "AttributeError"

(* the members of kind END that a compound holds *)
EndMembers(t) == { i \in 1..Len(t.val_comp) : t.val_comp[i].payload.tag_kind = TAG_END }

(* C17: a compound built from a mapping, and assigned into by name, stores    *)
(* no member of kind END: such an entry or value is left out or refused       *)
C17_NoEndMember ==
    (pc \in { "create", "assigned" } /\ tag.tag_kind = TAG_COMPOUND) => EndMembers(tag) = {}

(* the tag before and after the step are the same compound, member for member *)
SameMembers == tag'.val_comp = tag.val_comp

(* C19: a change of the dict the script gave to TagCompound leaves the        *)
(* compound's members as they were, and an assignment into the compound       *)
(* leaves the script's dict as it was                                         *)
C19_NoAliasing ==
    [][ /\ call'.op \in { "dict.__setitem__", "dict.__delitem__" } => SameMembers
        /\ (call'.op = "__setitem__" /\ pc = "create") => mapping' = mapping
      ]_vars

(* the script has read once, from the start of a file that holds the bytes    *)
(* written for root and more bytes after them                                 *)
ReadBeforeExtra == pc = "read" /\ edit = "extra" /\ got.pos = 0

(* C15: reading a file that holds the encoding of a named tag of any kind     *)
(* and more bytes after it returns that named tag and leaves the cursor at    *)
(* the first of the bytes that follow                                         *)
C15_ReadsOneTag ==
    (ReadBeforeExtra /\ ValidRoot(root)) =>
        (err = NoErr /\ got.val = root /\ pos = Len(Original))

(* the names of a compound's members, in stored order *)
NamesOf(t) == [i \in 1..Len(t.val_comp) |-> t.val_comp[i].name]

IsPrefix(a, b) == Len(a) <= Len(b) /\ a = SubSeq(b, 1, Len(a))

(* the members written for a compound: those before its first END member *)
MembersWritten(t) ==
    IF EndMembers(t) = {} THEN t.val_comp
    ELSE SubSeq(t.val_comp, 1, Least(EndMembers(t)) - 1)

(* TagCompound(m) has returned: its members are the entries of m, in m's order *)
ConstructedInOrder ==
    (pc = "create" /\ call.op = "TagPayload" /\ call.kind = TAG_COMPOUND
        /\ call.value.t = "dict" /\ err = NoErr) => tag.val_comp = call.value.v

(* root is a compound and was written: the file has its members' named tags   *)
(* in stored order                                                            *)
WrittenInOrder ==
    (pc = "written" /\ edit \in { "none", "kept" } /\ err = NoErr
        /\ root.payload.tag_kind = TAG_COMPOUND) =>
        SubSeq(file, PayloadStart + 1, Len(file)) =
            MembersEncoded(MembersWritten(root.payload)) \o << TAG_END >>

(* the file written for the compound root was read back: the members read     *)
(* are in the order of the file, which is that of the members written         *)
ReadInOrder ==
    (pc = "read" /\ edit \in { "none", "kept", "extra" } /\ got.pos = 0 /\ err = NoErr
        /\ root.payload.tag_kind = TAG_COMPOUND) =>
        NamesOf(got.val.payload) = [i \in 1..Len(MembersWritten(root.payload)) |->
                                       MembersWritten(root.payload)[i].name]

(* tag[name] = value on a compound keeps the members where they are and puts  *)
(* a new name last                                                            *)
AssignedInOrder ==
    (call'.op = "__setitem__" /\ pc = "create" /\ tag.tag_kind = TAG_COMPOUND) =>
        IsPrefix(NamesOf(tag), NamesOf(tag'))

(* C18: a compound's members stay in order: construction keeps the order of   *)
(* the mapping, decoding stores in the order of the stream, encoding writes   *)
(* in stored order, and assignment moves no member                            *)
C18_MemberOrder ==
    /\ [](ConstructedInOrder /\ WrittenInOrder /\ ReadInOrder)
    /\ [][AssignedInOrder]_vars

(* a compound of two members, changed after it was built, was written and   *)
(* read back                                                                  *)
C18_Witness ==
    /\ pc = "read" /\ edit = "kept" /\ got.pos = 0 /\ err = NoErr
    /\ root.payload.tag_kind = TAG_COMPOUND
    /\ Len(MembersWritten(root.payload)) = 2
    /\ Len(got.val.payload.val_comp) = 2

(* TagList(TAG_END, []) is called *)
TypelessEmptyBuilt ==
    /\ call.op = "TagPayload" /\ call.kind = TAG_LIST
    /\ call.list_item_kind = TAG_END /\ call.value = VList(<<>>)

(* a LIST payload that declares the kind END and holds nothing *)
TypelessEmpty(t) ==
    t.tag_kind = TAG_LIST /\ t.list_item_kind = TAG_END /\ t.val_list = <<>>

(* the unnamed LIST tag whose payload is the kind byte 0 and the count 0 *)
TypelessEmptyBytes == << TAG_LIST, 0, 0 >> \o << TAG_END, 0, 0, 0, 0 >>

ReadsTypelessEmpty(r) ==
    r.err = NoErr /\ TypelessEmpty(r.val.payload) /\ r.pos = Len(TypelessEmptyBytes)

(* C25: a LIST of declared kind END with no elements can be constructed, is   *)
(* written as the kind byte 0x00 and the 32-bit count 0, and those bytes are  *)
(* read back as an empty LIST of kind END, without an error                   *)
C25_TypelessEmptyList ==
    TypelessEmptyBuilt =>
        /\ err = NoErr
        /\ TypelessEmpty(tag)
        /\ write_to_file(tag) = [err |-> NoErr, out |-> << TAG_END, 0, 0, 0, 0 >>]
        /\ ReadsTypelessEmpty(NamedTag_read_from_file(TypelessEmptyBytes, 0))

(* bytes(draft) was called on a TagCompound of nbt/nbt.py *)
CompoundEncoded ==
    /\ call.op \in { "nbt.nbt.bytes", "nbt.nbt.bytes again" }
    /\ draft.kind = TAG_COMPOUND

(* the positions of the END entries of the stored list *)
EndEntries(d) == { i \in 1..Len(d.val.v) : d.val.v[i].payload.kind = TAG_END }

RECURSIVE EntriesEncoded(_, _)
(* the encodings of the first n entries, one after the other *)
EntriesEncoded(l, n) ==
    IF n = 0 THEN <<>>
    ELSE EntriesEncoded(l, n - 1) \o nbt_nbt_NamedTag_bytes(l[n]).out

EntriesEncodable(l, n) == \A i \in 1..n : nbt_nbt_NamedTag_bytes(l[i]).err = NoErr

(* C23: bytes() of a TagCompound of nbt/nbt.py encodes the stored entries up *)
(* to and including the first END entry and none of the entries after it     *)
C23_StopsAtFirstEnd ==
    (CompoundEncoded /\ EndEntries(draft) # {}
     /\ EntriesEncodable(draft.val.v, Least(EndEntries(draft)))) =>
        /\ err = NoErr
        /\ ret = VBytes(EntriesEncoded(draft.val.v, Least(EndEntries(draft))))

(* an END entry before the last position, a member after it, and bytes() done *)
C23_Witness ==
    /\ CompoundEncoded /\ err = NoErr
    /\ \E i \in EndEntries(draft) : \E j \in (i + 1)..Len(draft.val.v) :
          j \notin EndEntries(draft)

(* the step is tag[index] = value *)
Assigns == pc = "create" /\ call'.op = "__setitem__"
ValueAssigned == SetValue(call'.kind)

(* the position a Python index means in a list of n entries *)
PositionMeant(n) ==
    IF AsNum(call'.value.v) < 0 THEN n + AsNum(call'.value.v) + 1
    ELSE AsNum(call'.value.v) + 1

(* nothing but the named field of the tag changed *)
OnlyListChanged == [tag' EXCEPT !.val_list = tag.val_list] = tag
OnlyMembersChanged == [tag' EXCEPT !.val_comp = tag.val_comp] = tag

OneItemReplaced ==
    /\ OnlyListChanged
    /\ Len(tag'.val_list) = Len(tag.val_list)
    /\ PositionMeant(Len(tag.val_list)) \in 1..Len(tag.val_list)
    /\ \A j \in 1..Len(tag.val_list) :
          tag'.val_list[j] = IF j = PositionMeant(Len(tag.val_list))
                             THEN ValueAssigned ELSE tag.val_list[j]

OneMemberReplaced ==
    /\ OnlyMembersChanged
    /\ NamesOf(tag') = NamesOf(tag)
    /\ \A j \in 1..Len(tag.val_comp) :
          tag'.val_comp[j].payload = IF tag.val_comp[j].name = call'.value.v
                                     THEN ValueAssigned ELSE tag.val_comp[j].payload

OneMemberAdded ==
    /\ OnlyMembersChanged
    /\ tag'.val_comp =
          Append(tag.val_comp, [name |-> call'.value.v, payload |-> ValueAssigned])

AssignsOneEntry ==
    Assigns =>
        IF err' # NoErr THEN tag' = tag
        ELSE IF tag.tag_kind = TAG_COMPOUND
        THEN IF call'.value.v \in { tag.val_comp[j].name : j \in 1..Len(tag.val_comp) }
             THEN OneMemberReplaced ELSE OneMemberAdded
        ELSE OneItemReplaced

(* C27: tag[index] = value replaces the one entry at an existing name or a   *)
(* valid index and leaves the other entries, their order and their number    *)
(* alone; a new name adds one member at the end; an assignment that raises   *)
(* leaves the container as it was                                            *)
C27_AssignsOneEntry == [][AssignsOneEntry]_vars

(* a list of two integers, built from copies of one, whose entries differ    *)
(* after an assignment by index                                              *)
C27_Witness ==
    /\ pc = "assigned" /\ call.op = "__setitem__" /\ err = NoErr
    /\ tag.tag_kind = TAG_LIST /\ tag.list_item_kind = TAG_INT
    /\ Len(tag.val_list) = 2 /\ tag.val_list[1] # tag.val_list[2]

RECURSIVE EndsWithEnd(_)
(* every TagCompound of nbt/nbt.py in the object has an END named tag as the *)
(* last entry of its list                                                    *)
EndsWithEnd(d) ==
    d.kind = TAG_COMPOUND =>
        /\ Len(d.val.v) > 0
        /\ d.val.v[Len(d.val.v)].payload.kind = TAG_END
        /\ \A i \in 1..Len(d.val.v) : EndsWithEnd(d.val.v[i].payload)

(* the script of nbt/nbt.py holds an object, built or decoded *)
NbtBuilt == pc \in { "nbt", "nbt written" }
NbtDecoded == pc = "nbt read" /\ err = NoErr

(* the step is draft.append_before_end(NamedTag(name, payload)) *)
Appends == call'.op = "nbt.nbt.append_before_end"
Appended ==
    nbt_nbt_NamedTag(call'.value.v,
                     IF call'.kind = TAG_END THEN nbt_nbt_TagEnd
                     ELSE nbt_nbt_TagInt(PyInt(42)))

(* the new member stands right before the final END, behind the members the  *)
(* list held                                                                 *)
AppendsBeforeEnd ==
    Appends =>
        draft'.val.v = SubSeq(draft.val.v, 1, Len(draft.val.v) - 1)
                       \o << Appended, draft.val.v[Len(draft.val.v)] >>

(* C24: the list of a TagCompound of nbt/nbt.py ends with an END named tag   *)
(* after construction from a dict or a list, after decoding, and after every *)
(* append_before_end, ensure_end and bytes(); append_before_end(t) puts t    *)
(* right before that END, behind the members stored before                   *)
C24_TrailingEnd ==
    /\ [](/\ NbtBuilt => EndsWithEnd(draft)
          /\ NbtDecoded => EndsWithEnd(ret.v.payload))
    /\ [][AppendsBeforeEnd]_vars

(* a member appended to a compound that held two *)
C24_Witness ==
    /\ pc = "nbt" /\ call.op = "nbt.nbt.append_before_end"
    /\ Len(draft.val.v) = 4
    /\ draft.val.v[3].payload.kind = TAG_INT

(* a compound with a member was decoded from the file *)
NbtCompoundDecoded ==
    /\ NbtDecoded /\ ret.v.payload.kind = TAG_COMPOUND
    /\ Len(ret.v.payload.val.v) > 1

NbtKindsModelled == err.type # "NotModelled"

(* NamedTag() was called with no payload, and written *)
DefaultBuilt == pc = "default named"

(* the last byte of the file of a COMPOUND root is what NamedTag() encodes to *)
TerminatedByDefault ==
    (pc = "written" /\ edit \in { "none", "kept" } /\ err = NoErr
     /\ root.payload.tag_kind = TAG_COMPOUND) =>
        SubSeq(file, Len(file), Len(file)) =
            NamedTag_write_to_file(NamedTag(S_empty, PyNone)).out

(* C21: a NamedTag built with no payload, with nbtformat/full.py and with    *)
(* nbt/full.py, is the END marker: its payload is of kind END, it is written *)
(* as the one byte 0x00, and a compound's encoding ends with it              *)
C21_DefaultIsEnd ==
    /\ DefaultBuilt => (err = NoErr /\ file = << TAG_END >>)
    /\ (DefaultBuilt /\ call.op = "NamedTag") => root.payload.tag_kind = TAG_END
    /\ (DefaultBuilt /\ call.op = "nbt.full.NamedTag") =>
          (ret.t = "tag" /\ ret.v.payload.kind = TAG_END)
    /\ TerminatedByDefault

(* every element of the LIST has the kind the LIST declares *)
DraftHomogeneous ==
    draft.kind = TAG_LIST => \A i \in 1..Len(draft.val.v) : draft.val.v[i].kind = draft.item_kind
TagHomogeneous ==
    tag.tag_kind = TAG_LIST =>
        \A i \in 1..Len(tag.val_list) : tag.val_list[i].tag_kind = tag.list_item_kind

(* an assignment by index or an append leaves the declared kind as it was *)
KindKept ==
    /\ call'.op \in { "nbt.full.__setitem__", "nbt.full.append" } =>
          draft'.item_kind = draft.item_kind
    /\ (call'.op = "__setitem__" /\ tag.tag_kind = TAG_LIST) =>
          tag'.list_item_kind = tag.list_item_kind

(* C22: after TagList construction, assignments by integer index and appends, *)
(* successful or failed, every element of a LIST has the list's declared kind *)
(* and the declared kind is what it was at creation, in nbt/full.py and in    *)
(* nbtformat/full.py                                                          *)
C22_HomogeneousAfterMutation ==
    /\ [](DraftHomogeneous /\ TagHomogeneous)
    /\ [][KindKept]_vars

RECURSIVE StreamMembers(_, _)
(* the named tags of the stream from pos up to the END, as a sequence *)
StreamMembers(f, at) ==
    IF NamedTag_read_from_file(f, at).err # NoErr
       \/ NamedTag_read_from_file(f, at).val.payload.tag_kind = TAG_END
    THEN <<>>
    ELSE << NamedTag_read_from_file(f, at).val >>
         \o StreamMembers(f, NamedTag_read_from_file(f, at).pos)

Occurrences(m, name) == { i \in 1..Len(m) : m[i].name = name }
Greatest(S) == CHOOSE x \in S : \A y \in S : y <= x

(* d has one member for each name of m, with the payload of the name's last  *)
(* occurrence in m, at the place of its first occurrence                     *)
LastWins(m, d) ==
    /\ Len(d) = Cardinality({ m[i].name : i \in 1..Len(m) })
    /\ { d[j].name : j \in 1..Len(d) } = { m[i].name : i \in 1..Len(m) }
    /\ \A j \in 1..Len(d) :
          d[j].payload = m[Greatest(Occurrences(m, d[j].name))].payload
    /\ \A j, k \in 1..Len(d) :
          j < k => Least(Occurrences(m, d[j].name)) < Least(Occurrences(m, d[k].name))

(* a COMPOUND root was read from the start of the file *)
CompoundRead ==
    /\ pc = "read" /\ got.pos = 0 /\ err = NoErr
    /\ got.val.payload.tag_kind = TAG_COMPOUND

(* where the payload of the root starts: behind the kind byte and the name *)
MembersStart == read_from_file(TAG_STRING, file, 1).pos

RECURSIVE ReachesItself(_)
(* the container the script holds is among the values stored under it *)
ReachesItself(t) ==
    \/ "ref" \in DOMAIN t
    \/ \E i \in 1..Len(t.val_list) : ReachesItself(t.val_list[i])
    \/ \E i \in 1..Len(t.val_comp) : ReachesItself(t.val_comp[i].payload)

(* C28: after constructor calls and assignments by index or name, no LIST or *)
(* COMPOUND is reachable from itself through its children, so write_to_file  *)
(* comes to an end on every tree that can be built                           *)
C28_NoCycles == ~ReachesItself(tag)

(* print_tag was called on the tag, once or twice *)
TagPrinted == pc \in { "printed", "printed again" }

(* the second call printed what the first printed *)
PrintsTheSame == call'.op = "print_tag again" => (ret' = ret /\ err' = err)

(* C30: print_tag returns without raising for every valid tree of each of    *)
(* the 13 kinds, the arrays included, and two calls on one tree print the    *)
(* same text                                                                 *)
C30_PrintTotal ==
    /\ []((TagPrinted /\ ValidTree(tag)) => err = NoErr)
    /\ [][PrintsTheSame]_vars

(* read_from_file returned or raised *)
DecodeEnded == pc \in { "returned", "raised" }

(* a while loop of a COMPOUND that goes on has moved the cursor since its    *)
(* iteration began                                                           *)
MemberConsumes ==
    (Reading /\ Top.op = "members" /\ reader.last # TAG_END) => pos > Top.at

(* a comprehension has run no more iterations than its count *)
ItemsBounded ==
    \A i \in 1..Len(reader.stack) :
        reader.stack[i].op = "items" =>
            reader.stack[i].done <= (IF reader.stack[i].count < 0 THEN 0
                                     ELSE reader.stack[i].count)

(* a comprehension that is over has run as many iterations as its count *)
ItemsAllRun ==
    (Reading /\ Top.op = "items" /\ Len(reader'.stack) < Len(reader.stack)
     /\ pc' = "decoding") =>
        Top.done = (IF Top.count < 0 THEN 0 ELSE Top.count)

(* C29: NamedTag.read_from_file comes to an end on every byte sequence, by   *)
(* returning or by raising; an iteration of the compound loop consumes at    *)
(* least one byte or ends the loop, and a list or array loop runs as many    *)
(* iterations as the count that was read                                     *)
C29_DecoderTerminates ==
    /\ <>DecodeEnded
    /\ [](MemberConsumes /\ ItemsBounded)
    /\ [][ItemsAllRun]_vars

(* a COMPOUND with a member and a LIST with an item were read to the end *)
C29_Witness ==
    /\ pc = "decoding" /\ Reading
    /\ \/ Top.op = "members" /\ Top.done = 1 /\ reader.last = TAG_END
       \/ Top.op = "items" /\ Top.done = 1 /\ Top.count = 1 /\ reader.last = TAG_BYTE

(* the reader ends where NamedTag_read_from_file ends, with its exception *)
DecodeAgrees ==
    DecodeEnded =>
        /\ err = NamedTag_read_from_file(file, 0).err
        /\ pos = NamedTag_read_from_file(file, 0).pos
=============================================================================
